---- MODULE Spec2Model ----
(***************************************************************************)
(* A model of the duty-roster engine of core_engine.py: ShiftScheduler     *)
(* builds a constraint model over X[s,d] (staff s works on day d), hands   *)
(* it to the CP-SAT backend, enumerates solutions with no-good cuts and    *)
(* falls back to staged relaxation when an attempt is INFEASIBLE.          *)
(*                                                                         *)
(* Days are the indices 0..NumDays-1 of calendar_data (a date is its       *)
(* index; dates of the prior period are negative).  Staff are indexed      *)
(* 1..Len(all_staff) in the order of staff_list.  A grid is a sequence     *)
(* g with g[d+1] = the set of staff indices working on day d.              *)
(***************************************************************************)
EXTENDS Integers, Sequences, FiniteSets, TLC

\* ------------------------------------------------------------------ bounds
NumDays == 5
MaxSolutions == 2
MaxInterval == 3

\* ------------------------------------------------------- program constants
WeekLen == 7
LastWeek == 5
PenaltyCap == 1000000
DispInit == 30
DispInc == 60
DispDec == 1
Lookback == 90
W1 == 100
W2 == 60
W3 == 40

StaffNames == <<"A", "B", "C">>
NameSet == {StaffNames[i] : i \in 1..Len(StaffNames)}
weekdays_jp == <<"Mon", "Tue", "Wed", "Thu", "Fri", "Sat", "Sun">>
HolidayKey == "Hol"
Days == 0..(NumDays - 1)
NoGrid == <<>>
NoBounds == <<>>

\* ----------------------------------------------------------------- helpers
Range(n) == 0..(n - 1)
MaxOf(S) == CHOOSE x \in S : \A y \in S : y <= x
MinOf(S) == CHOOSE x \in S : \A y \in S : x <= y
Max2(a, b) == IF a >= b THEN a ELSE b
Abs(x) == IF x < 0 THEN -x ELSE x
FloorDiv(a, b) == a \div b
CeilDiv(a, b) == (a + b - 1) \div b
\* Python's round(a / b) for a >= 0, b > 0: round half to even
PyRound(a, b) ==
  LET q == a \div b
      r == a % b
  IN IF 2 * r < b THEN q
     ELSE IF 2 * r > b THEN q + 1
     ELSE IF q % 2 = 0 THEN q ELSE q + 1

RECURSIVE SumOver(_, _)
SumOver(S, f) ==
  IF S = {} THEN 0
  ELSE LET x == CHOOSE y \in S : TRUE IN f[x] + SumOver(S \ {x}, f)

\* --------------------------------------------------------- staff, calendar
\* StaffManager.get_active_staff / ShiftScheduler.all_staff
NumStaff(cfg) == Len(cfg.all_staff)
StaffIdx(cfg) == 1..NumStaff(cfg)
NameOf(cfg, s) == cfg.all_staff[s]
staff_names(cfg) == {cfg.all_staff[s] : s \in StaffIdx(cfg)}

\* Staff.is_available
is_available(cfg, name, weekday) == weekday \notin cfg.impossible_weekdays[name]

\* generate_calendar_with_holidays: weekday and national-holiday flag of a date
WeekdayIndex(cfg, d) == (cfg.first_weekday + d) % WeekLen
WeekdayStr(cfg, d) == weekdays_jp[WeekdayIndex(cfg, d) + 1]
IsNationalHoliday(cfg, d) == d \in cfg.jp_holidays

\* raw_shifts[(s, d)] of a grid
X(g, s, d) == IF s \in g[d + 1] THEN 1 ELSE 0
TotalOf(g, s) == Cardinality({d \in Days : s \in g[d + 1]})

\* ------------------------------------------------------------- coverage
\* ShiftScheduler._get_shift_range_for_day
\* variant: the configured maximum is not applied
MutRangeDropMax(cfg, d) ==
  LET c == cfg.shifts_per_day
  IN IF c.kind = "int" THEN <<c.min, NumStaff(cfg)>>
     ELSE IF c.kind = "range" THEN <<c.min, NumStaff(cfg)>>
     ELSE <<1, NumStaff(cfg)>>

_get_shift_range_for_day(cfg, d) ==
  LET c == cfg.shifts_per_day
  IN IF c.kind = "int" THEN <<c.min, c.min>>
     ELSE IF c.kind = "range" THEN <<c.min, c.max>>
     ELSE LET key == IF IsNationalHoliday(cfg, d) /\ HolidayKey \in DOMAIN c.map
                     THEN HolidayKey ELSE WeekdayStr(cfg, d)
          IN IF key \in DOMAIN c.map THEN c.map[key] ELSE <<1, 1>>

IsNoShift(cfg, d) == cfg.no_shift_dates # {} /\ d \in cfg.no_shift_dates

\* the per-day capacity constraint of _add_hard_constraints
DayCountOK(cfg, d, n) ==
  IF IsNoShift(cfg, d) THEN n = 0
  ELSE LET r == _get_shift_range_for_day(cfg, d) IN r[1] <= n /\ n <= r[2]

CoverageOK(cfg, g) == \A d \in Days : DayCountOK(cfg, d, Cardinality(g[d + 1]))

\* ------------------------------------------------------- rule expansion
\* last_week_dates of _generate_*_from_rules: the last date of each weekday,
\* scanning back over the last seven days of the month
HasLastWeekDate(cfg, wd) ==
  \E i \in Range(WeekLen) :
    cfg.last_day - 1 - i >= 0 /\ WeekdayIndex(cfg, cfg.last_day - 1 - i) = wd
last_week_dates(cfg, wd) ==
  MaxOf({cfg.last_day - 1 - i : i \in {j \in Range(WeekLen) :
            cfg.last_day - 1 - j >= 0 /\ WeekdayIndex(cfg, cfg.last_day - 1 - j) = wd}})

RuleSkipsDay(cfg, d) == cfg.ignore_rules_on_holidays /\ d \in cfg.jp_holidays

\* variant: a skipped holiday still advances the counter of its weekday
MutCurrentWeekCountsHolidays(cfg, d) ==
  Cardinality({e \in 0..d : WeekdayIndex(cfg, e) = WeekdayIndex(cfg, d)})

\* counters[wd] after processing date d
current_week(cfg, d) ==
  Cardinality({e \in 0..d : ~RuleSkipsDay(cfg, e)
                            /\ WeekdayIndex(cfg, e) = WeekdayIndex(cfg, d)})

RuleMatches(cfg, r, d) ==
  LET wd == WeekdayIndex(cfg, d)
      is_last == r.week_number = LastWeek /\ r.weekday_index = wd
                 /\ HasLastWeekDate(cfg, wd) /\ last_week_dates(cfg, wd) = d
  IN /\ ~RuleSkipsDay(cfg, d)
     /\ \/ (r.week_number = current_week(cfg, d) /\ r.weekday_index = wd)
        \/ is_last

\* ShiftScheduler._generate_fixed_shifts_from_rules, as (name, date) pairs
_generate_fixed_shifts_from_rules(cfg) ==
  {p \in NameSet \X Range(cfg.last_day) :
     \E r \in cfg.rule_based_fixed_shifts : r.staff = p[1] /\ RuleMatches(cfg, r, p[2])}

\* ShiftScheduler._generate_vacations_from_rules, as (name, date) pairs
_generate_vacations_from_rules(cfg) ==
  {p \in NameSet \X Range(cfg.last_day) :
     \E r \in cfg.rule_based_vacations : r.staff_name = p[1] /\ RuleMatches(cfg, r, p[2])}

\* ShiftScheduler._manual_fixed_lookup; manual_fixed_shifts is kept as its pairs
manual_fixed_lookup(cfg) == cfg.manual_fixed_shifts
rule_fixed_lookup(cfg) == _generate_fixed_shifts_from_rules(cfg)
planned_fixed_lookup(cfg) == manual_fixed_lookup(cfg) \cup rule_fixed_lookup(cfg)
IsPlanned(cfg, s, d) == <<NameOf(cfg, s), d>> \in planned_fixed_lookup(cfg)

\* ------------------------------------------------- per-slot hard rules
\* The priority chain of _add_hard_constraints for one (staff, day): the set
\* of values the slot is pinned to (one model.Add(shifts == v) per element).
\* variant: the manual fixed shift is tested before the manual vacation
MutSlotRuleFixedFirst(cfg, s, d) ==
  LET name == NameOf(cfg, s)
  IN IF <<name, d>> \in manual_fixed_lookup(cfg) THEN {1}
     ELSE IF <<name, d>> \in cfg.vacations THEN {0}
     ELSE {}

SlotRule(cfg, s, d) ==
  LET name == NameOf(cfg, s)
      is_holiday_and_ignored == cfg.ignore_rules_on_holidays /\ d \in cfg.jp_holidays
  IN IF <<name, d>> \in cfg.vacations THEN {0}
     ELSE IF <<name, d>> \in manual_fixed_lookup(cfg) THEN {1}
     ELSE IF <<name, d>> \in _generate_vacations_from_rules(cfg) THEN {0}
     ELSE IF ~is_available(cfg, name, WeekdayStr(cfg, d)) /\ ~is_holiday_and_ignored THEN {0}
     ELSE {}

SlotOK(cfg, g) ==
  \A s \in StaffIdx(cfg), d \in Days : \A v \in SlotRule(cfg, s, d) : X(g, s, d) = v

\* last-month carry over for the minimum interval
days_to_forbid(cfg, R, s) ==
  LET last_worked_date == cfg.last_month_end_dates[NameOf(cfg, s)]
      days_since_last == 0 - last_worked_date
  IN R - days_since_last + 1

RestCarryOK(cfg, R, g) ==
  \A s \in StaffIdx(cfg) :
    NameOf(cfg, s) \in DOMAIN cfg.last_month_end_dates =>
      \A d \in Range(days_to_forbid(cfg, R, s)) :
        (d < NumDays /\ ~IsPlanned(cfg, s, d)) => X(g, s, d) = 0

\* the days d for which the minimum-interval implications are posted
MinIntervalStarts(R) == Range(NumDays - R - 1)

\* Min interval (skipped only when both ends are planned fixed)
MinIntervalOK(cfg, R, g) ==
  \A s \in StaffIdx(cfg) : \A d \in MinIntervalStarts(R) : \A i \in 1..(R - 1) :
    LET k == d + 1 + i
    IN (k < NumDays /\ ~(IsPlanned(cfg, s, d) /\ IsPlanned(cfg, s, k))) =>
         ((X(g, s, d) = 1 /\ X(g, s, d + 1) = 0) => X(g, s, k) = 0)

\* the first days of the windows of max_consecutive_days + 1 days
\* variant: the last window of the period is not posted
MutWindowStarts(cfg) == Range(NumDays - cfg.max_consecutive_days - 1)

WindowStarts(cfg) == Range(NumDays - cfg.max_consecutive_days)

has_planned_pair(cfg, s, lo, hi) ==
  \E j \in lo..(hi - 1) : IsPlanned(cfg, s, j) /\ IsPlanned(cfg, s, j + 1)

WindowSum(g, s, lo, hi) == Cardinality({i \in lo..hi : s \in g[i + 1]})

\* Max consecutive (a window is skipped only if it holds an adjacent planned pair)
MaxConsecutiveOK(cfg, g) ==
  \A s \in StaffIdx(cfg) : \A d \in WindowStarts(cfg) :
    ~has_planned_pair(cfg, s, d, d + cfg.max_consecutive_days) =>
      WindowSum(g, s, d, d + cfg.max_consecutive_days) <= cfg.max_consecutive_days

\* the carry-over block reads day_list[indices[j]] for indices up to
\* remaining_days while it looks for an adjacent planned pair: past the end of
\* day_list the read raises IndexError, unless a pair was met first
PrevConsecutiveRaises(cfg, s) ==
  /\ NameOf(cfg, s) \in DOMAIN cfg.prev_month_consecutive_days
  /\ LET consecutive == cfg.prev_month_consecutive_days[NameOf(cfg, s)]
         remaining_days == cfg.max_consecutive_days - consecutive
     IN /\ consecutive > 0
        /\ remaining_days < cfg.max_consecutive_days
        /\ remaining_days >= NumDays
        /\ ~has_planned_pair(cfg, s, 0, NumDays - 1)

\* _add_hard_constraints raises while the model is built
BuildRaises(cfg) == \E s \in StaffIdx(cfg) : PrevConsecutiveRaises(cfg, s)

\* variant: the trailing count of the prior period is not carried over
MutNoPrevConsecutive(cfg, g) == TRUE

\* carry-over of the trailing consecutive-day count of the prior period
PrevConsecutiveOK(cfg, g) ==
  \A s \in StaffIdx(cfg) :
    NameOf(cfg, s) \in DOMAIN cfg.prev_month_consecutive_days =>
      LET consecutive == cfg.prev_month_consecutive_days[NameOf(cfg, s)]
          remaining_days == cfg.max_consecutive_days - consecutive
      IN (consecutive > 0 /\ remaining_days < cfg.max_consecutive_days) =>
           (~has_planned_pair(cfg, s, 0, remaining_days) =>
              WindowSum(g, s, 0, remaining_days) <= remaining_days)

\* ShiftScheduler._add_hard_constraints with min_interval = R
HardOK(cfg, R, g) ==
  /\ CoverageOK(cfg, g)
  /\ SlotOK(cfg, g)
  /\ RestCarryOK(cfg, R, g)
  /\ MinIntervalOK(cfg, R, g)
  /\ MaxConsecutiveOK(cfg, g)
  /\ PrevConsecutiveOK(cfg, g)

\* --------------------------------------------- totals and hard extras
RawTotals(cfg, g) == {TotalOf(g, s) : s \in StaffIdx(cfg)}
Spread(S) == MaxOf(S) - MinOf(S)

\* variant: the spread of the raw totals is left free
MutGlobalTotalDiffOff(cfg, g) == TRUE

\* ShiftScheduler._add_global_total_diff_leq1 (and the Stage-1 variant of
\* _try_single_with_min_interval): raw totals of all staff differ by <= 1
GlobalTotalDiffOK(cfg, g) == Spread(RawTotals(cfg, g)) <= 1

\* the Stage-2 / Stage-2b hard constraints on the totals of the others
OthersTotalsOK(cfg, p, g) ==
  LET selected == {s \in StaffIdx(cfg) : NameOf(cfg, s) \in p.others_names}
  IN ((p.others_total_bounds # NoBounds \/ p.enforce_others_diff_leq1)
        /\ p.others_names # {} /\ selected # {}) =>
       /\ p.others_total_bounds # NoBounds =>
            \A s \in selected : /\ TotalOf(g, s) >= p.others_total_bounds[1]
                                /\ TotalOf(g, s) <= p.others_total_bounds[2]
       /\ (p.enforce_others_diff_leq1 /\ Cardinality(selected) > 1) =>
            Spread({TotalOf(g, s) : s \in selected}) <= 1

\* ------------------------------------------------------------ penalties
\* ShiftScheduler._add_soft_constraints: one violation literal per rule-fixed
\* (staff, day), 1 exactly when the staff is not assigned; their sum
fixed_penalty(cfg, g) ==
  Cardinality({q \in cfg.rule_based_fixed_shifts \X Days :
                 /\ RuleMatches(cfg, q[1], q[2])
                 /\ q[1].staff \in staff_names(cfg)
                 /\ \E s \in StaffIdx(cfg) : NameOf(cfg, s) = q[1].staff /\ X(g, s, q[2]) = 0})

weights(r) == IF r = 1 THEN W1 ELSE IF r = 2 THEN W2 ELSE IF r = 3 THEN W3 ELSE W3

\* ShiftScheduler._add_min_interval_soft_penalties
minint_penalty(cfg, g) ==
  LET orig == cfg.min_interval
      pairs == {q \in (StaffIdx(cfg) \X Days) \X (1..(orig - 1)) :
                  LET s == q[1][1]
                      d == q[1][2]
                      k == d + q[2]
                  IN /\ k < NumDays
                     /\ ~(<<NameOf(cfg, s), d>> \in manual_fixed_lookup(cfg)
                          /\ <<NameOf(cfg, s), k>> \in manual_fixed_lookup(cfg))
                     /\ X(g, s, d) = 1 /\ X(g, s, k) = 1}
  IN IF orig <= 1 THEN 0
     ELSE SumOver(pairs, [q \in pairs |-> weights(q[2])])

\* ShiftScheduler._get_date_categories
_get_date_categories(cfg, d, target_categories) ==
  (IF WeekdayStr(cfg, d) \in target_categories THEN {WeekdayStr(cfg, d)} ELSE {})
  \cup (IF IsNationalHoliday(cfg, d) /\ HolidayKey \in target_categories
        THEN {HolidayKey} ELSE {})

\* initial_penalties[staff][cat] of _add_dispersion_penalty
initial_penalty(cfg, name, cat) ==
  DispInit * Cardinality({pd \in DOMAIN cfg.past_schedules :
                            /\ ~(0 - pd > Lookback)
                            /\ name \in cfg.past_schedules[pd]
                            /\ name \in staff_names(cfg)
                            /\ cat \in _get_date_categories(cfg, pd, cfg.fairness_group)})

\* penalty_vars[s][cat] at the start of day d
RECURSIVE penalty_var(_, _, _, _, _)
penalty_var(cfg, g, s, cat, d) ==
  IF d = 0 THEN initial_penalty(cfg, NameOf(cfg, s), cat)
  ELSE LET prev == penalty_var(cfg, g, s, cat, d - 1)
           inc == IF cat \in _get_date_categories(cfg, d - 1, cfg.fairness_group)
                  THEN X(g, s, d - 1) * DispInc ELSE 0
       IN Max2(prev - DispDec + inc, 0)

\* ShiftScheduler._add_dispersion_penalty: total_dispersion_penalty
dispersion_penalty(cfg, g) ==
  LET terms == {q \in (StaffIdx(cfg) \X Days) \X cfg.fairness_group :
                  /\ q[2] \in _get_date_categories(cfg, q[1][2], cfg.fairness_group)
                  /\ X(g, q[1][1], q[1][2]) = 1}
  IN SumOver(terms, [q \in terms |-> penalty_var(cfg, g, q[1][1], q[2], q[1][2])])

DispersionOn(cfg) == cfg.disperse_duties /\ cfg.fairness_group # {}

\* all_day_penalties is empty: no day of the period has a category of the
\* group, and _add_dispersion_penalty ends with model.Add(0)
EmptyDispersionSum(cfg) ==
  /\ DispersionOn(cfg)
  /\ \A d \in Days : _get_date_categories(cfg, d, cfg.fairness_group) = {}

\* CpModel.Add given the int 0 instead of a bounded expression: the builds
\* that accept only an expression or a bool raise TypeError, those that
\* coerce the argument to a bool post the constant-false constraint
AddRaises(cfg) == EmptyDispersionSum(cfg)

AddPostedOK(cfg) == ~EmptyDispersionSum(cfg)

\* the penalties handed to _add_fairness_objective as fixed_shift_penalty and
\* dispersion_penalty (penalty_sum of _sum_penalties in a relaxation attempt)
PenaltyParts(cfg, p, g) ==
  fixed_penalty(cfg, g)
  + (IF p.relaxed THEN minint_penalty(cfg, g) ELSE 0)
  + (IF DispersionOn(cfg) THEN dispersion_penalty(cfg, g) ELSE 0)

\* ------------------------------------------------------------- fairness
AdjTotals(cfg, p, g) ==
  {TotalOf(g, s) - p.total_adjustments[NameOf(cfg, s)] : s \in StaffIdx(cfg)}

special_day_indices(cfg) ==
  {d \in Days : \/ (HolidayKey \in cfg.fairness_group /\ IsNationalHoliday(cfg, d))
                \/ WeekdayStr(cfg, d) \in cfg.fairness_group}

FairOf(cfg, g, s) == Cardinality({d \in special_day_indices(cfg) : s \in g[d + 1]})

AdjFairOf(cfg, p, g, s) == FairOf(cfg, g, s) - p.fairness_adjustments[NameOf(cfg, s)]

AdjFairs(cfg, p, g, idx) == {AdjFairOf(cfg, p, g, s) : s \in idx}

InDom(v, lo, hi) == lo <= v /\ v <= hi

\* min/max/diff auxiliaries of a set of adjusted counts, with the domains of
\* their IntVars: min in [-n, n], max in [0, n], diff in [0, n]
SpreadVarsOK(S) ==
  /\ InDom(MinOf(S), 0 - NumDays, NumDays)
  /\ InDom(MaxOf(S), 0, NumDays)
  /\ InDom(Spread(S), 0, NumDays)

\* the value fairness_penalty is constrained to (fair_over of the soft branch,
\* 0 when that branch is not taken)
fair_over(cfg, p, g) ==
  IF NumStaff(cfg) > 1 /\ cfg.fairness_group # {} /\ special_day_indices(cfg) # {}
     /\ ~p.subset_fair /\ ~cfg.fairness_as_hard
  THEN Max2(Spread(AdjFairs(cfg, p, g, StaffIdx(cfg))) - cfg.fairness_tolerance, 0)
  ELSE 0

\* model.Add(fairness_penalty == 0), posted before any branch
FairnessPenaltyPinned(cfg, p, g) == fair_over(cfg, p, g) = 0

\* the category-fairness part of _add_fairness_objective
CategoryFairnessOK(cfg, p, g) ==
  (cfg.fairness_group # {} /\ special_day_indices(cfg) # {}) =>
    /\ \A s \in StaffIdx(cfg) : InDom(AdjFairOf(cfg, p, g, s), 0 - NumDays, NumDays)
    /\ IF ~p.subset_fair
       THEN /\ SpreadVarsOK(AdjFairs(cfg, p, g, StaffIdx(cfg)))
            /\ IF cfg.fairness_as_hard
               THEN Spread(AdjFairs(cfg, p, g, StaffIdx(cfg))) <= cfg.fairness_tolerance
               ELSE /\ InDom(Spread(AdjFairs(cfg, p, g, StaffIdx(cfg))) - cfg.fairness_tolerance,
                             0 - NumDays, NumDays)
                    /\ InDom(fair_over(cfg, p, g), 0, NumDays)
       ELSE LET hard_indices == {s \in StaffIdx(cfg) : NameOf(cfg, s) \in p.fairness_hard_names}
            IN (Cardinality(hard_indices) > 1 /\ cfg.fairness_as_hard) =>
                 /\ SpreadVarsOK(AdjFairs(cfg, p, g, hard_indices))
                 /\ Spread(AdjFairs(cfg, p, g, hard_indices)) <= cfg.fairness_tolerance

\* the total-count part of _add_fairness_objective: only variable domains,
\* total_diff is a term of the objective
TotalFairnessOK(cfg, p, g) ==
  /\ \A v \in AdjTotals(cfg, p, g) : InDom(v, 0 - NumDays, NumDays)
  /\ SpreadVarsOK(AdjTotals(cfg, p, g))

\* ShiftScheduler._add_fairness_objective: the auxiliary variables and the
\* constraints of the hard branches
FairnessVarsOK(cfg, p, g) ==
  /\ InDom(PenaltyParts(cfg, p, g) + fair_over(cfg, p, g), 0, PenaltyCap)
  /\ NumStaff(cfg) > 1 => (TotalFairnessOK(cfg, p, g) /\ CategoryFairnessOK(cfg, p, g))

\* ShiftScheduler._add_fairness_objective: what it makes hard
FairnessOK(cfg, p, g) ==
  /\ FairnessPenaltyPinned(cfg, p, g)
  /\ FairnessVarsOK(cfg, p, g)

\* ShiftScheduler._add_fairness_objective: what it minimises
Objective(cfg, p, g) ==
  LET total_penalty == PenaltyParts(cfg, p, g) + fair_over(cfg, p, g)
  IN IF NumStaff(cfg) > 1
     THEN Spread(AdjTotals(cfg, p, g)) + total_penalty
     ELSE total_penalty

\* ------------------------------------------------------ model and solver
\* ShiftScheduler._add_solution_prohibition_constraint: one no-good cut per
\* accepted solution (the new grid differs from it in at least one cell)
\* variant: no cut is posted
MutProhibitionOK(cuts, g) == TRUE

_add_solution_prohibition_constraint(cuts, g) ==
  \A i \in 1..Len(cuts) :
    \E d \in Days : g[d + 1] # cuts[i].raw_shifts[d + 1]

\* the assignments the search ranges over, day by day: every set of staff
\* whose size meets the day's capacity
Columns(cfg, d) == {c \in SUBSET StaffIdx(cfg) : DayCountOK(cfg, d, Cardinality(c))}

RECURSIVE GridsFrom(_, _)
GridsFrom(cfg, d) ==
  IF d = NumDays THEN {<<>>}
  ELSE LET rest == GridsFrom(cfg, d + 1)
       IN {<<c>> \o r : c \in Columns(cfg, d), r \in rest}

\* the constraints of one attempt other than those of _add_fairness_objective
ModelBaseOK(cfg, p, g) ==
  /\ HardOK(cfg, p.min_interval, g)
  /\ AddPostedOK(cfg)
  /\ p.global_diff => GlobalTotalDiffOK(cfg, g)
  /\ p.enforce_total_diff_all_leq1 => GlobalTotalDiffOK(cfg, g)
  /\ OthersTotalsOK(cfg, p, g)
  /\ _add_solution_prohibition_constraint(p.cuts, g)

\* every constraint posted on the model of one attempt
ModelOK(cfg, p, g) == ModelBaseOK(cfg, p, g) /\ FairnessOK(cfg, p, g)

FeasibleGrids(cfg, p) == {g \in GridsFrom(cfg, 0) : ModelOK(cfg, p, g)}

\* cp_model.CpSolver.Solve: INFEASIBLE only for a model without solution,
\* OPTIMAL with a grid of minimal objective, FEASIBLE with any grid of the
\* model, UNKNOWN when the search was cut short
Solve(cfg, p) ==
  LET F == FeasibleGrids(cfg, p)
      objs == {Objective(cfg, p, g) : g \in F}
  IN {[status |-> "UNKNOWN", grid |-> NoGrid]}
     \cup (IF F = {} THEN {[status |-> "INFEASIBLE", grid |-> NoGrid]}
           ELSE {[status |-> "OPTIMAL", grid |-> g] :
                    g \in {h \in F : Objective(cfg, p, h) = MinOf(objs)}}
                \cup {[status |-> "FEASIBLE", grid |-> g] : g \in F})

Found(o) == o.status \in {"OPTIMAL", "FEASIBLE"}

\* --------------------------------------------------- attempt parameters
\* the model built by one iteration of the loop of solve
UnrelaxedParams(cfg, found) ==
  [min_interval |-> cfg.min_interval, relaxed |-> FALSE,
   global_diff |-> (cfg.manual_fixed_shifts # {}),
   others_total_bounds |-> NoBounds, others_names |-> {},
   enforce_others_diff_leq1 |-> FALSE, enforce_total_diff_all_leq1 |-> FALSE,
   subset_fair |-> FALSE, fairness_hard_names |-> {},
   total_adjustments |-> cfg.total_adjustments,
   fairness_adjustments |-> cfg.fairness_adjustments,
   cuts |-> found]

\* variant: Stage 1 starts from the original interval itself
MutOrigMinPlusOne(cfg) == Max2(0, cfg.min_interval) + 1

orig_min(cfg) == Max2(0, cfg.min_interval)

\* Stage 1 of _progressive_relaxation: _try_single_with_min_interval(eff)
Stage1Params(cfg, e) ==
  [min_interval |-> e, relaxed |-> TRUE, global_diff |-> FALSE,
   others_total_bounds |-> NoBounds, others_names |-> {},
   enforce_others_diff_leq1 |-> FALSE, enforce_total_diff_all_leq1 |-> TRUE,
   subset_fair |-> FALSE, fairness_hard_names |-> {},
   total_adjustments |-> cfg.total_adjustments,
   fairness_adjustments |-> cfg.fairness_adjustments,
   cuts |-> <<>>]

\* total of the daily minima over all days of calendar_data
R_total(cfg) ==
  SumOver(Days, [d \in Days |-> _get_shift_range_for_day(cfg, d)[1]])

\* ShiftScheduler._estimate_tough_staff_adjustments: name -> deficit
per_expected(cfg) == Max2(0, PyRound(R_total(cfg), Max2(1, NumStaff(cfg))))

avail(cfg, name) ==
  Cardinality({d \in Days :
     /\ ~IsNoShift(cfg, d)
     /\ <<name, d>> \notin cfg.vacations
     /\ <<name, d>> \notin _generate_vacations_from_rules(cfg)
     /\ WeekdayStr(cfg, d) \notin cfg.impossible_weekdays[name]})

tough_adj(cfg) ==
  LET tough == {n \in staff_names(cfg) : per_expected(cfg) - avail(cfg, n) > 0}
  IN [n \in tough |-> per_expected(cfg) - avail(cfg, n)]

\* ShiftScheduler._count_manual_fixed_by_staff
fixed_counts(cfg, name) == Cardinality({q \in cfg.manual_fixed_shifts : q[1] = name})

baseline(cfg) == FloorDiv(R_total(cfg), Max2(1, NumStaff(cfg)))
tough_fixed(cfg) == {n \in NameSet : fixed_counts(cfg, n) > baseline(cfg)}
tough_names(cfg) == DOMAIN tough_adj(cfg) \cup tough_fixed(cfg)
others_names(cfg) == staff_names(cfg) \ tough_names(cfg)

ToughDelta(cfg, n) == IF n \in DOMAIN tough_adj(cfg) THEN Abs(tough_adj(cfg)[n]) ELSE 0

fa_total(cfg) ==
  [n \in NameSet |-> cfg.total_adjustments[n] - ToughDelta(cfg, n)]

fa_fair(cfg) ==
  [n \in NameSet |->
     LET over_fixed == Max2(0, fixed_counts(cfg, n) - baseline(cfg))
         delta_need == ToughDelta(cfg, n) + over_fixed
     IN IF n \in tough_names(cfg) /\ delta_need > 0
        THEN cfg.fairness_adjustments[n] - delta_need
        ELSE cfg.fairness_adjustments[n]]

\* variant: fa_total is the caller's mapping itself
MutTotalWrittenThrough(cfg) == fa_total(cfg)

\* the caller's mappings after Stage 2 lowered the offsets: fa_total and
\* fa_fair are dict(...) copies, the writes do not reach the arguments
caller_total_adjustments(cfg) == cfg.total_adjustments
caller_fairness_adjustments(cfg) == cfg.fairness_adjustments

others_bounds(cfg) ==
  IF others_names(cfg) = {} THEN NoBounds
  ELSE LET F_tough == SumOver(tough_names(cfg),
                              [n \in tough_names(cfg) |-> fixed_counts(cfg, n)])
           R_remain == Max2(0, R_total(cfg) - F_tough)
           M == Max2(1, Cardinality(others_names(cfg)))
       IN <<FloorDiv(R_remain, M), CeilDiv(R_remain, M)>>

\* Stage 2: interval 1, range constraint on the others, fairness of the others
Stage2Params(cfg) ==
  [min_interval |-> 1, relaxed |-> TRUE, global_diff |-> FALSE,
   others_total_bounds |-> others_bounds(cfg), others_names |-> others_names(cfg),
   enforce_others_diff_leq1 |-> FALSE, enforce_total_diff_all_leq1 |-> FALSE,
   subset_fair |-> TRUE, fairness_hard_names |-> others_names(cfg),
   total_adjustments |-> fa_total(cfg),
   fairness_adjustments |-> fa_fair(cfg),
   cuts |-> <<>>]

\* Stage 2b: the range constraint withdrawn, the others' totals differ by <= 1
Stage2bParams(cfg) ==
  [min_interval |-> 1, relaxed |-> TRUE, global_diff |-> FALSE,
   others_total_bounds |-> NoBounds, others_names |-> others_names(cfg),
   enforce_others_diff_leq1 |-> TRUE, enforce_total_diff_all_leq1 |-> FALSE,
   subset_fair |-> TRUE, fairness_hard_names |-> others_names(cfg),
   total_adjustments |-> fa_total(cfg),
   fairness_adjustments |-> fa_fair(cfg),
   cuts |-> <<>>]

\* the entries _progressive_relaxation appends to relaxations_log
LogEntry(kind, a, b) == [kind |-> kind, a |-> a, b |-> b]

Stage2LogEntries(cfg) ==
  (IF DOMAIN tough_adj(cfg) # {} THEN <<LogEntry("tough_total", 0, 0)>> ELSE <<>>)
  \o (IF tough_fixed(cfg) # {} THEN <<LogEntry("tough_fixed", 0, 0)>> ELSE <<>>)
  \o (IF tough_names(cfg) # {} THEN <<LogEntry("tough_fair", 0, 0)>> ELSE <<>>)
  \o (IF others_names(cfg) # {}
      THEN <<LogEntry("others_range", others_bounds(cfg)[1], others_bounds(cfg)[2])>>
      ELSE <<>>)

\* ---------------------------------------------------------------- state
VARIABLES
  cfg,              \* the scheduler's inputs and the arguments of solve
  pc,               \* "solve" | "stage1" | "stage2" | "stage2b" | "returned" | "raised"
  found_solutions,  \* solve: the solutions accepted so far
  iter,             \* solve: iterations of range(max_solutions) completed
  eff,              \* _progressive_relaxation: the Stage-1 loop variable
  relaxations_log,  \* _progressive_relaxation: relaxations_log
  sol2,             \* _progressive_relaxation: the string Stage 2 returned
  attempts,         \* every solver call so far: its stage, interval and status
  constraint_tags,  \* self.constraint_tags: <<model, tag>> for every tagged constraint
  result            \* what solve returned

vars == <<cfg, pc, found_solutions, iter, eff, relaxations_log, sol2, attempts,
          constraint_tags, result>>

NoResult == [kind |-> "none", solutions |-> <<>>, text |-> <<>>]
ListResult(sols) == [kind |-> "list", solutions |-> sols, text |-> <<>>]
StrResult(parts) == [kind |-> "str", solutions |-> <<>>, text |-> parts]
\* solve left by an exception that no handler of solve caught
Raised == [kind |-> "exception", solutions |-> <<>>, text |-> <<>>]

\* ShiftScheduler._create_solution_from_solver (raw_shifts), with the stage
\* and hard interval of the attempt that produced it; 'relaxations' is set by
\* _progressive_relaxation
\* minint_penalty and dispersion_penalty are the values the solver gives the
\* variables returned by _add_min_interval_soft_penalties (0 in the loop of
\* solve, whose model has no such variable) and _add_dispersion_penalty (0
\* when the option is off)
Solution(o, stage, R, relaxed, log) ==
  [raw_shifts |-> o.grid, status |-> o.status, stage |-> stage, min_interval |-> R,
   relaxed |-> relaxed, relaxations |-> log,
   minint_penalty |-> IF relaxed THEN minint_penalty(cfg, o.grid) ELSE 0,
   dispersion_penalty |-> IF DispersionOn(cfg) THEN dispersion_penalty(cfg, o.grid) ELSE 0]

\* whether the attempt called _analyze_infeasibility on its solver:
\* _try_single_with_min_interval does on INFEASIBLE; the loop of solve goes
\* straight into _progressive_relaxation and calls it only from the handler
\* of an exception of the relaxation
Analyzed(stage, o) == stage # "solve" /\ o.status = "INFEASIBLE"

Attempt(stage, R, o) ==
  [stage |-> stage, min_interval |-> R, status |-> o.status,
   analyzed |-> Analyzed(stage, o)]

\* solver.SufficientAssumptionsForInfeasibility: no model of the scheduler
\* declares an assumption literal, so the set is empty (or the call raises, and
\* the handler takes the empty list)
SufficientAssumptionsForInfeasibility == {}

\* variant: no text when the backend yields no assumption set
MutAnalyzeEmpty(assumptions) ==
  IF assumptions = {} THEN "" ELSE "conflict_report"

\* ShiftScheduler._analyze_infeasibility: the generic hint for an empty set,
\* else the header followed by the tags of the assumptions
_analyze_infeasibility(assumptions) ==
  IF assumptions = {} THEN "fallback_hint" ELSE "conflict_report"

\* what _try_single_with_min_interval returns when it has no solution
FailText(o) ==
  IF o.status = "INFEASIBLE"
  THEN _analyze_infeasibility(SufficientAssumptionsForInfeasibility)
  ELSE "unknown_state"

\* variant: the tag log is kept from one model to the next
MutKeepTags(old) == old

\* self.constraint_tags = {} at the start of every model
ResetTags(old) == {}

\* the kinds of tag the build of one model records: the coverage of each
\* day, the pinned slots, the rest interval and consecutive-day windows
\* posted, and the constraints on totals and fairness particular to the stage
TagsPosted(c, p) ==
  {"need"}
  \cup (IF \E s \in StaffIdx(c), d \in Days : SlotRule(c, s, d) # {} THEN {"slot"} ELSE {})
  \cup (IF \E s \in StaffIdx(c), d \in MinIntervalStarts(p.min_interval),
             i \in 1..(p.min_interval - 1) :
             d + 1 + i < NumDays /\ ~(IsPlanned(c, s, d) /\ IsPlanned(c, s, d + 1 + i))
         THEN {"rest_interval"} ELSE {})
  \cup (IF \E s \in StaffIdx(c), d \in WindowStarts(c) :
             ~has_planned_pair(c, s, d, d + c.max_consecutive_days)
         THEN {"max_consecutive"} ELSE {})
  \cup (IF p.global_diff THEN {"total_diff_first"} ELSE {})
  \cup (IF p.enforce_total_diff_all_leq1 THEN {"total_diff_stage1"} ELSE {})
  \cup (LET selected == {s \in StaffIdx(c) : NameOf(c, s) \in p.others_names}
            posted == (p.others_total_bounds # NoBounds \/ p.enforce_others_diff_leq1)
                      /\ p.others_names # {} /\ selected # {}
        IN (IF posted /\ p.others_total_bounds # NoBounds
            THEN {"others_lower", "others_upper"} ELSE {})
           \cup (IF posted /\ p.enforce_others_diff_leq1 /\ Cardinality(selected) > 1
                 THEN {"others_diff"} ELSE {}))

\* the tag log after the build of the n-th model
TagLog(old, n, c, p) == ResetTags(old) \cup {<<n, t>> : t \in TagsPosted(c, p)}

\* solve with no active staff, or max_solutions = 0: the loop body never runs
SolveEmpty ==
  /\ pc = "solve"
  /\ (NumStaff(cfg) = 0 \/ cfg.max_solutions <= 0)
  /\ pc' = "returned"
  /\ result' = ListResult(found_solutions)
  /\ UNCHANGED <<cfg, found_solutions, iter, eff, relaxations_log, sol2, attempts,
                 constraint_tags>>

\* one iteration of the loop of solve: build the model, add the no-good cuts,
\* solve; the last iteration (or an undecided status) returns found_solutions
SolveStep(o) ==
  IF Found(o)
  THEN /\ found_solutions' = Append(found_solutions,
                                    Solution(o, "solve", cfg.min_interval, FALSE, <<>>))
       /\ iter' = iter + 1
       /\ pc' = IF iter + 1 >= cfg.max_solutions THEN "returned" ELSE "solve"
       /\ result' = IF iter + 1 >= cfg.max_solutions
                    THEN ListResult(found_solutions') ELSE result
       /\ UNCHANGED <<eff, relaxations_log>>
  ELSE IF o.status = "INFEASIBLE"
  THEN /\ pc' = IF orig_min(cfg) - 1 >= 1 THEN "stage1" ELSE "stage2"
       /\ eff' = orig_min(cfg) - 1
       /\ relaxations_log' = <<>>
       /\ UNCHANGED <<found_solutions, iter, result>>
  ELSE /\ pc' = "returned"
       /\ result' = ListResult(found_solutions)
       /\ UNCHANGED <<found_solutions, iter, eff, relaxations_log>>

\* an iteration of the loop of solve whose model building raises: the
\* building calls stand outside every try block of solve
SolveRaises ==
  /\ pc = "solve"
  /\ NumStaff(cfg) > 0 /\ iter < cfg.max_solutions
  /\ (BuildRaises(cfg) \/ AddRaises(cfg))
  /\ pc' = "raised"
  /\ result' = Raised
  /\ constraint_tags' = ResetTags(constraint_tags) \cup {<<Len(attempts) + 1, "need">>}
  /\ UNCHANGED <<cfg, found_solutions, iter, eff, relaxations_log, sol2, attempts>>

SolveAttempt ==
  /\ pc = "solve"
  /\ NumStaff(cfg) > 0 /\ iter < cfg.max_solutions
  /\ ~BuildRaises(cfg)
  /\ \E o \in Solve(cfg, UnrelaxedParams(cfg, found_solutions)) :
       /\ attempts' = Append(attempts, Attempt("solve", cfg.min_interval, o))
       /\ constraint_tags' = TagLog(constraint_tags, Len(attempts) + 1, cfg,
                                    UnrelaxedParams(cfg, found_solutions))
       /\ SolveStep(o)
  /\ UNCHANGED <<cfg, sol2>>

\* variant: a Stage-1 attempt leaves the log as it was
MutStage1LogSkipped(log, e) == log

\* the entry of relaxations_log for one Stage-1 attempt
Stage1Log(log, e) == Append(log, LogEntry("interval", orig_min(cfg), e))

\* Stage 1: one pass of the loop over eff = R-1 .. 1
Stage1Attempt ==
  /\ pc = "stage1"
  /\ \E o \in Solve(cfg, Stage1Params(cfg, eff)) :
       /\ attempts' = Append(attempts, Attempt("stage1", eff, o))
       /\ constraint_tags' = TagLog(constraint_tags, Len(attempts) + 1, cfg,
                                    Stage1Params(cfg, eff))
       /\ relaxations_log' = Stage1Log(relaxations_log, eff)
       /\ IF Found(o)
          THEN /\ pc' = "returned"
               /\ result' = ListResult(<<Solution(o, "stage1", eff, TRUE, relaxations_log')>>)
               /\ eff' = eff
          ELSE /\ pc' = IF eff - 1 >= 1 THEN "stage1" ELSE "stage2"
               /\ eff' = eff - 1
               /\ result' = result
  /\ UNCHANGED <<cfg, found_solutions, iter, sol2>>

\* the staff with a run of manual fixed days longer than max_consecutive_days
over_seq(c) ==
  {n \in NameSet : \E d \in Days :
     \A i \in 0..c.max_consecutive_days : <<n, d + i>> \in c.manual_fixed_shifts}

\* ShiftScheduler._build_stage2_diagnostic: the items of the report
_build_stage2_diagnostic(c) ==
  [tough |-> [n \in tough_names(c) |-> fixed_counts(c, n)],
   R_total |-> R_total(c),
   others |-> others_names(c),
   others_bounds |-> others_bounds(c),
   over_seq |-> over_seq(c)]

\* the failure of _progressive_relaxation: base message, blank line, report
FailResult(base) == StrResult(<<base, _build_stage2_diagnostic(cfg)>>)

\* Stage 2: tough staff lowered, the others range-constrained, interval 1
Stage2Attempt ==
  /\ pc = "stage2"
  /\ \E o \in Solve(cfg, Stage2Params(cfg)) :
       /\ attempts' = Append(attempts, Attempt("stage2", 1, o))
       /\ constraint_tags' = TagLog(constraint_tags, Len(attempts) + 1, cfg, Stage2Params(cfg))
       /\ relaxations_log' = relaxations_log \o Stage2LogEntries(cfg)
       /\ IF Found(o)
          THEN /\ pc' = "returned"
               /\ result' = ListResult(<<Solution(o, "stage2", 1, TRUE, relaxations_log')>>)
               /\ sol2' = sol2
          ELSE IF others_names(cfg) # {}
          THEN /\ pc' = "stage2b"
               /\ sol2' = FailText(o)
               /\ result' = result
          ELSE /\ pc' = "returned"
               /\ sol2' = FailText(o)
               /\ result' = FailResult(FailText(o))
  /\ cfg' = [cfg EXCEPT !.total_adjustments = caller_total_adjustments(cfg),
                        !.fairness_adjustments = caller_fairness_adjustments(cfg)]
  /\ UNCHANGED <<found_solutions, iter, eff>>

\* Stage 2b: retry with the others' totals differing by at most 1
Stage2bAttempt ==
  /\ pc = "stage2b"
  /\ \E o \in Solve(cfg, Stage2bParams(cfg)) :
       /\ attempts' = Append(attempts, Attempt("stage2b", 1, o))
       /\ constraint_tags' = TagLog(constraint_tags, Len(attempts) + 1, cfg, Stage2bParams(cfg))
       /\ relaxations_log' = Append(relaxations_log, LogEntry("others_diff", 0, 0))
       /\ pc' = "returned"
       /\ result' = IF Found(o)
                    THEN ListResult(<<Solution(o, "stage2b", 1, TRUE, relaxations_log')>>)
                    ELSE FailResult(sol2)
  /\ UNCHANGED <<cfg, found_solutions, iter, eff, sol2>>

\* the two expansions of the month's rules, as _add_hard_constraints and
\* _add_soft_constraints obtain them
Expanded(c) ==
  [kind |-> "rules",
   fixed |-> _generate_fixed_shifts_from_rules(c),
   vacations |-> _generate_vacations_from_rules(c)]

\* the rule expansion on its own, over a month of cfg.last_day days
ExpandRules ==
  /\ pc = "solve"
  /\ pc' = "expanded"
  /\ result' = Expanded(cfg)
  /\ UNCHANGED <<cfg, found_solutions, iter, eff, relaxations_log, sol2, attempts,
                 constraint_tags>>

NextRules == ExpandRules

Next == SolveEmpty \/ SolveRaises \/ SolveAttempt \/ Stage1Attempt \/ Stage2Attempt \/ Stage2bAttempt

InitControl ==
  /\ pc = "solve"
  /\ found_solutions = <<>>
  /\ iter = 0
  /\ eff = 0
  /\ relaxations_log = <<>>
  /\ sol2 = ""
  /\ attempts = <<>>
  /\ constraint_tags = {}
  /\ result = NoResult

\* --------------------------------------------------------------- inputs
IntCfg(n) == [kind |-> "int", min |-> n, max |-> n, map |-> <<>>]
RangeCfg(lo, hi) == [kind |-> "range", min |-> lo, max |-> hi, map |-> <<>>]
MapCfg(m) == [kind |-> "map", min |-> 0, max |-> 0, map |-> m]

Two == <<"A", "B">>
Three == <<"A", "B", "C">>

\* two staff, one per day, nothing else constraining; the period is the
\* month, of last_day days
BaseCfg ==
  [all_staff |-> Two,
   impossible_weekdays |-> [n \in NameSet |-> {}],
   ignore_rules_on_holidays |-> FALSE,
   first_weekday |-> 0,
   jp_holidays |-> {},
   shifts_per_day |-> IntCfg(1),
   min_interval |-> 2,
   max_consecutive_days |-> 2,
   max_solutions |-> 1,
   last_month_end_dates |-> <<>>,
   prev_month_consecutive_days |-> <<>>,
   no_shift_dates |-> {},
   manual_fixed_shifts |-> {},
   rule_based_fixed_shifts |-> {},
   vacations |-> {},
   rule_based_vacations |-> {},
   fairness_group |-> {},
   total_adjustments |-> [n \in NameSet |-> 0],
   fairness_adjustments |-> [n \in NameSet |-> 0],
   fairness_tolerance |-> 1,
   disperse_duties |-> FALSE,
   past_schedules |-> <<>>,
   fairness_as_hard |-> TRUE,
   rules_fixed_data |-> {},
   last_day |-> NumDays]

Intervals == 0..MaxInterval
Counts == 0..MaxSolutions

\* a carry-over of c consecutive days for A
PrevOf(c) == ("A" :> c)

\* inputs every specification shares: an empty run, an exhausted enumeration,
\* a carry-over reaching past the period, and a full staff on every day (one
\* grid, infeasible under a short max_consecutive_days)
CommonInputs ==
  {[BaseCfg EXCEPT !.max_solutions = 0],
   [BaseCfg EXCEPT !.all_staff = <<>>],
   [BaseCfg EXCEPT !.prev_month_consecutive_days = PrevOf(1),
                   !.max_consecutive_days = NumDays + 1]}
  \cup {[BaseCfg EXCEPT !.shifts_per_day = IntCfg(2), !.min_interval = r,
                        !.max_consecutive_days = k, !.max_solutions = n] :
          r \in Intervals, k \in {2, NumDays}, n \in Counts \ {0}}

\* vacations that force B to work day 0, rest day 1 and work day 2
RestTightVac == {<<"A", 0>>, <<"A", 2>>, <<"B", 1>>}

WeekMap == ("Mon" :> <<2, 2>>) @@ ("Tue" :> <<0, 1>>) @@ (HolidayKey :> <<1, 2>>)
FriMap == ("Fri" :> <<0, 1>>) @@ (HolidayKey :> <<1, 2>>)

\* coverage: the three forms of shifts_per_day, no-shift dates, holidays
CoverageInputs ==
  {[BaseCfg EXCEPT !.shifts_per_day = sp, !.no_shift_dates = ns,
                   !.jp_holidays = {2}, !.min_interval = r] :
     sp \in {IntCfg(1), RangeCfg(1, 2), RangeCfg(0, 1), MapCfg(WeekMap)},
     ns \in {{}, {1}, {0, 4}},
     r \in Intervals}
  \cup {[BaseCfg EXCEPT !.all_staff = Three, !.shifts_per_day = sp, !.no_shift_dates = ns,
                        !.jp_holidays = {2}] :
          sp \in {IntCfg(1), MapCfg(WeekMap)}, ns \in {{}, {1}}}
  \cup {[BaseCfg EXCEPT !.shifts_per_day = sp, !.no_shift_dates = {4},
                        !.jp_holidays = {3}, !.vacations = RestTightVac,
                        !.min_interval = r] :
          sp \in {RangeCfg(1, 2), MapCfg(FriMap)}, r \in Intervals}

Rule(n, wd, who) == [week_number |-> n, weekday_index |-> wd, staff |-> who]
VacRule(n, wd, who) == [week_number |-> n, weekday_index |-> wd, staff_name |-> who]

\* precedence: manual vacation, manual fixed, rule vacation, rule fixed and a
\* static unavailable weekday meeting on the slots (A, 1) and (A, 3)
PrecedenceInputs ==
  {[BaseCfg EXCEPT !.vacations = v, !.manual_fixed_shifts = mf,
                   !.rule_based_fixed_shifts = rf, !.rule_based_vacations = rv,
                   !.impossible_weekdays = [n \in NameSet |-> IF n = "A" THEN iw ELSE {}],
                   !.ignore_rules_on_holidays = ig, !.jp_holidays = {3},
                   !.min_interval = r] :
     v \in {{}, {<<"A", 1>>}, {<<"A", 1>>, <<"B", 3>>}},
     mf \in {{<<"A", 1>>}, {<<"A", 1>>, <<"A", 3>>}, {<<"B", 1>>, <<"A", 3>>}},
     rf \in {{}, {Rule(1, 1, "A")}},
     rv \in {{}, {VacRule(1, 3, "A")}},
     iw \in {{}, {"Thu"}},
     ig \in BOOLEAN,
     r \in {1, 2}}

\* consecutive days: short limits, pinned runs, one or two staff per day
ConsecutiveInputs ==
  {[BaseCfg EXCEPT !.shifts_per_day = sp, !.max_consecutive_days = k,
                   !.manual_fixed_shifts = mf, !.rule_based_fixed_shifts = rf,
                   !.min_interval = r] :
     sp \in {IntCfg(1), RangeCfg(1, 2)},
     k \in 1..3,
     mf \in {{}, {<<"A", 1>>, <<"A", 2>>, <<"A", 3>>}, {<<"A", 1>>, <<"A", 2>>}},
     rf \in {{}, {Rule(1, 0, "A")}},
     r \in {1, 2}}
  \cup {[BaseCfg EXCEPT !.shifts_per_day = RangeCfg(1, 2), !.max_consecutive_days = k,
                        !.vacations = RestTightVac, !.min_interval = r] :
          k \in 1..3, r \in Intervals}

AllWeek == {weekdays_jp[i] : i \in 1..WeekLen}
AVacMost == {<<"A", 0>>, <<"A", 1>>, <<"A", 2>>, <<"A", 3>>}

\* fairness: a staff on vacation most of the period, hard or soft fairness
FairnessInputs ==
  {[BaseCfg EXCEPT !.all_staff = st, !.vacations = v, !.max_consecutive_days = NumDays,
                   !.fairness_as_hard = h, !.fairness_group = fg,
                   !.fairness_tolerance = tol, !.jp_holidays = {2},
                   !.total_adjustments = [n \in NameSet |-> IF n = "A" THEN ta ELSE 0]] :
     st \in {Two, Three},
     v \in {{}, AVacMost},
     h \in BOOLEAN,
     fg \in {{}, AllWeek, {"Mon", HolidayKey}},
     tol \in {0, 1},
     ta \in {0, 1}}

\* enumeration: few or many grids, every requested count
EnumerationInputs ==
  {[BaseCfg EXCEPT !.max_solutions = n, !.min_interval = r, !.max_consecutive_days = k,
                   !.vacations = {<<"A", 0>>, <<"A", 1>>}] :
     n \in Counts, r \in {1, 2}, k \in {2, 3}}
  \cup {[BaseCfg EXCEPT !.max_solutions = n] : n \in Counts}

\* vacations that force B, A, A, B on days 0..3 and leave the last day open
RestEndVac == {<<"A", 0>>, <<"A", 3>>, <<"B", 1>>, <<"B", 2>>}

\* relaxation: inputs infeasible by the rest interval, by the category
\* fairness of a tough staff, or by both
RelaxationInputs ==
  {[BaseCfg EXCEPT !.all_staff = st, !.vacations = v, !.min_interval = r,
                   !.max_consecutive_days = k, !.fairness_group = fg,
                   !.fairness_tolerance = tol] :
     st \in {Two, Three},
     v \in {RestTightVac, RestEndVac, AVacMost, AVacMost \cup {<<"B", 4>>}},
     r \in Intervals,
     k \in {2, NumDays},
     fg \in {{}, AllWeek},
     tol \in {0, 1}}

\* rest interval: every interval, one or two staff per day, planned pairs
RestInputs ==
  {[BaseCfg EXCEPT !.min_interval = r, !.shifts_per_day = sp,
                   !.manual_fixed_shifts = mf, !.max_consecutive_days = k] :
     r \in Intervals,
     sp \in {IntCfg(1), RangeCfg(1, 2)},
     mf \in {{}, {<<"A", 0>>, <<"A", 2>>}},
     k \in {2, 3}}

\* faults: the carry-over of consecutive days against limits short of, equal
\* to and beyond the length of the period, with and without a pinned pair
FaultInputs ==
  {[BaseCfg EXCEPT !.prev_month_consecutive_days = pm, !.max_consecutive_days = k,
                   !.manual_fixed_shifts = mf, !.shifts_per_day = sp,
                   !.min_interval = r] :
     pm \in {<<>>, PrevOf(0), PrevOf(1), PrevOf(2), PrevOf(3)},
     k \in {2, NumDays, NumDays + 1},
     mf \in {{}, {<<"A", 0>>, <<"A", 1>>}, {<<"B", 0>>, <<"B", 1>>}},
     sp \in {IntCfg(1), RangeCfg(1, 2)},
     r \in {1, 2}}

\* StaffManager.get_staff_by_name over the registry of the settings
get_staff_by_name(c, name) == name \in staff_names(c)

\* SettingsManager.from_dict: a fixed rule of rules_fixed_data whose staff_name
\* is not registered is skipped, every vacation rule is appended as it stands
from_dict(c) ==
  [c EXCEPT !.rule_based_fixed_shifts =
              {r \in c.rules_fixed_data : get_staff_by_name(c, r.staff)}]

\* settings files whose rules name A, B (registered) and C (registered only
\* when the staff are Three)
SettingsData ==
  {[BaseCfg EXCEPT !.all_staff = st, !.rules_fixed_data = rf,
                   !.rule_based_vacations = rv, !.min_interval = r] :
     st \in {Two, Three},
     rf \in {{}, {Rule(1, 0, "C")}, {Rule(1, 0, "A"), Rule(1, 1, "C")}},
     rv \in {{}, {VacRule(1, 2, "C")}, {VacRule(1, 2, "A"), VacRule(1, 3, "C")}},
     r \in Intervals}

ValidationInputs == {from_dict(d) : d \in SettingsData}

Init == cfg \in CommonInputs \cup CoverageInputs /\ InitControl
Spec == Init /\ [][Next]_vars

InitCoverage == cfg \in CommonInputs \cup CoverageInputs /\ InitControl
SpecCoverage == InitCoverage /\ [][Next]_vars
InitRest == cfg \in CommonInputs \cup RestInputs /\ InitControl
SpecRest == InitRest /\ [][Next]_vars
InitPrecedence == cfg \in CommonInputs \cup PrecedenceInputs /\ InitControl
SpecPrecedence == InitPrecedence /\ [][Next]_vars
InitConsecutive == cfg \in CommonInputs \cup ConsecutiveInputs /\ InitControl
SpecConsecutive == InitConsecutive /\ [][Next]_vars
InitFairness == cfg \in CommonInputs \cup FairnessInputs /\ InitControl
SpecFairness == InitFairness /\ [][Next]_vars
InitEnumeration == cfg \in CommonInputs \cup EnumerationInputs /\ InitControl
SpecEnumeration == InitEnumeration /\ [][Next]_vars
InitRelaxation == cfg \in CommonInputs \cup RelaxationInputs /\ InitControl
SpecRelaxation == InitRelaxation /\ [][Next]_vars
InitFaults == cfg \in CommonInputs \cup FaultInputs /\ InitControl
SpecFaults == InitFaults /\ [][Next]_vars
\* Stage 2: inputs whose first attempt fails by the category fairness or by
\* the rest interval, with a staff short of days or pinned on many, days
\* without shift, and one or two staff per day
Stage2Inputs ==
  {[BaseCfg EXCEPT !.all_staff = st, !.vacations = v, !.manual_fixed_shifts = mf,
                   !.no_shift_dates = ns, !.shifts_per_day = sp,
                   !.min_interval = r, !.max_consecutive_days = NumDays,
                   !.fairness_group = AllWeek, !.fairness_tolerance = 0] :
     st \in {Two, Three},
     v \in {{}, AVacMost},
     mf \in {{}, {<<"B", 0>>, <<"B", 1>>, <<"B", 2>>}},
     ns \in {{}, {4}},
     sp \in {IntCfg(1), RangeCfg(1, 2)},
     r \in {0, 1, 2}}

\* the two-staff inputs of the relaxation family
ControllerInputs == {c \in RelaxationInputs : c.all_staff = Two}
InitController == cfg \in CommonInputs \cup ControllerInputs /\ InitControl
\* solve has not returned or raised yet
Running == pc \in {"solve", "stage1", "stage2", "stage2b"}
\* solve is sequential code, a run that can take a step takes it: weak
\* fairness of Next, with ENABLED <<Next>>_vars written out as Running (at
\* every position before the return one of the actions has its guard true,
\* and the solver always has an outcome)
SolveProceeds == []<>(~Running) \/ []<><<Next>>_vars
SpecController == InitController /\ [][Next]_vars /\ SolveProceeds
InitStage2 == cfg \in CommonInputs \cup Stage2Inputs /\ InitControl
SpecStage2 == InitStage2 /\ [][Next]_vars
\* the lengths of a month (calendar.monthrange)
MonthLengths == {28, 29, 30, 31}
WeekNumbers == 1..LastWeek

\* rules: every month length and first weekday, one fixed rule of A and one
\* vacation rule of B on a weekday, holidays early in the month, on its last
\* day and in its last week, exempt or not
RuleInputs ==
  UNION {
    {[BaseCfg EXCEPT !.last_day = L, !.first_weekday = fw, !.jp_holidays = hs,
                     !.ignore_rules_on_holidays = ig,
                     !.rule_based_fixed_shifts = {Rule(n, wd, "A")},
                     !.rule_based_vacations = {VacRule(5, wd, "B"), VacRule(n, 0, "B")}] :
       fw \in Range(WeekLen),
       hs \in {{}, {L - 1}, {L - 3, 8}, {0, 7}},
       ig \in BOOLEAN,
       n \in WeekNumbers,
       wd \in {2, 6}} : L \in MonthLengths}

InitRules == cfg \in RuleInputs /\ InitControl
SpecRules == InitRules /\ [][NextRules]_vars
\* soft fixed shifts: one rule, two rules on different slots, two rules that
\* meet on the slot (A, 1); that slot free, on vacation, or pinned to B
SoftInputs ==
  {[BaseCfg EXCEPT !.rule_based_fixed_shifts = rf, !.vacations = v,
                   !.manual_fixed_shifts = mf, !.min_interval = r,
                   !.max_solutions = n] :
     rf \in {{Rule(1, 1, "A")}, {Rule(1, 1, "A"), Rule(1, 3, "B")},
             {Rule(1, 1, "A"), Rule(LastWeek, 1, "A")}},
     v \in {{}, {<<"A", 1>>}},
     mf \in {{}, {<<"B", 1>>}, {<<"A", 3>>}},
     r \in {1, 2},
     n \in {1, 2}}

InitSoft == cfg \in CommonInputs \cup SoftInputs /\ InitControl
SpecSoft == InitSoft /\ [][Next]_vars
\* A last worked on the day that many days before the first of the period
LastWorked(k) == ("A" :> (0 - k))

\* carry-over of the rest interval: A's last worked date one to four days
\* back, every interval, day 0 free, rule-fixed or manually fixed for A
CarryInputs ==
  {[BaseCfg EXCEPT !.last_month_end_dates = lm, !.min_interval = r,
                   !.rule_based_fixed_shifts = rf, !.manual_fixed_shifts = mf] :
     lm \in {<<>>, LastWorked(1), LastWorked(2), LastWorked(4)},
     r \in Intervals,
     rf \in {{}, {Rule(1, 0, "A")}},
     mf \in {{}, {<<"A", 0>>}, {<<"B", 1>>}}}

InitCarry == cfg \in CommonInputs \cup CarryInputs /\ InitControl
SpecCarry == InitCarry /\ [][Next]_vars
\* proximity: the first attempt fails by the rest interval; days 3 and 4
\* free, both rule-fixed or both manually fixed for A, or one fixed for B
ProximityInputs ==
  {[BaseCfg EXCEPT !.vacations = RestTightVac, !.min_interval = r,
                   !.max_consecutive_days = k, !.rule_based_fixed_shifts = rf,
                   !.manual_fixed_shifts = mf, !.shifts_per_day = sp] :
     r \in Intervals,
     k \in {2, NumDays},
     rf \in {{}, {Rule(1, 3, "A"), Rule(1, 4, "A")}, {Rule(1, 3, "A")}},
     mf \in {{}, {<<"A", 3>>, <<"A", 4>>}, {<<"B", 3>>}},
     sp \in {IntCfg(1), RangeCfg(1, 2)}}

\* a history: A on the day before the period (a Sunday), A and B a week
\* before it (a Monday), A 90 days before (a Tuesday), B 91 days before
History ==
  ((0 - 1) :> {"A"}) @@ ((0 - WeekLen) :> {"A", "B"})
  @@ ((0 - Lookback) :> {"A"}) @@ ((0 - Lookback - 1) :> {"B"})

\* dispersion: the option on or off, groups with and without a day of the
\* period, a holiday or none, with and without history
DispersionInputs ==
  {[BaseCfg EXCEPT !.disperse_duties = dd, !.fairness_group = fg, !.jp_holidays = hs,
                   !.past_schedules = ps, !.fairness_as_hard = FALSE,
                   !.max_consecutive_days = NumDays, !.min_interval = r] :
     dd \in BOOLEAN,
     fg \in {{}, {HolidayKey}, {"Mon", "Tue"}, {"Tue", HolidayKey}},
     hs \in {{}, {1}},
     ps \in {<<>>, History},
     r \in {1, 2}}

InitDispersion == cfg \in CommonInputs \cup DispersionInputs /\ InitControl
SpecDispersion == InitDispersion /\ [][Next]_vars
\* vacations that leave B the first two days of the period
BVacLate == {<<"B", d>> : d \in 2..(NumDays - 1)}
\* A fixed on every day but the last
AFixedMost == {<<"A", d>> : d \in Range(NumDays - 1)}

\* first attempt with manual fixed shifts: none, one, many for one staff (on
\* a vacation day too), one or two staff per day, hard or soft fairness
GlobalDiffInputs ==
  {[BaseCfg EXCEPT !.manual_fixed_shifts = mf, !.vacations = v, !.shifts_per_day = sp,
                   !.fairness_as_hard = h, !.fairness_tolerance = tol,
                   !.fairness_group = fg, !.max_consecutive_days = NumDays,
                   !.min_interval = 1] :
     mf \in {{}, {<<"A", 0>>}, AFixedMost, {<<"B", 0>>, <<"B", 1>>, <<"B", 2>>}},
     v \in {{}, BVacLate},
     sp \in {IntCfg(1), RangeCfg(1, 2)},
     h \in BOOLEAN,
     tol \in {0, 1},
     fg \in {{}, AllWeek}}

InitGlobalDiff == cfg \in CommonInputs \cup GlobalDiffInputs /\ InitControl
SpecGlobalDiff == InitGlobalDiff /\ [][Next]_vars
\* the relaxation inputs of two staff under every requested count
TrailInputs ==
  {[c EXCEPT !.max_solutions = n] :
     c \in {x \in ControllerInputs : x.fairness_tolerance = 0},
     n \in Counts \ {0}}

InitTrail == cfg \in CommonInputs \cup TrailInputs /\ InitControl
SpecTrail == InitTrail /\ [][Next]_vars
\* offsets of the adjustment table for A and B
OffsetsOf(a, b) == [n \in NameSet |-> IF n = "A" THEN a ELSE IF n = "B" THEN b ELSE 0]

\* offsets: none, small, negative, and above every reachable total, for one
\* or both staff; B free or on vacation after the first two days
OffsetInputs ==
  {[BaseCfg EXCEPT !.total_adjustments = OffsetsOf(a, b), !.vacations = v,
                   !.max_consecutive_days = NumDays, !.min_interval = 1] :
     a \in {0 - 3, 0 - 1, 0, 2, NumDays + 1},
     b \in {0, 1, NumDays + 1},
     v \in {{}, BVacLate}}

InitOffsets == cfg \in CommonInputs \cup OffsetInputs /\ InitControl
SpecOffsets == InitOffsets /\ [][Next]_vars
InitProximity == cfg \in CommonInputs \cup ProximityInputs /\ InitControl
SpecProximity == InitProximity /\ [][Next]_vars
InitValidation == cfg \in CommonInputs \cup ValidationInputs /\ InitControl
SpecValidation == InitValidation /\ [][Next]_vars

\* ---------------------------------------------------------------- claims
\* the solutions solve has returned
ReturnedSolutions ==
  IF result.kind = "list"
  THEN {result.solutions[i] : i \in 1..Len(result.solutions)}
  ELSE {}

Worked(sol, s, d) == s \in sol.raw_shifts[d + 1]
Headcount(sol, d) == Cardinality(sol.raw_shifts[d + 1])

\* the [min, max] shifts_per_day gives for a date: an int n is [n, n], a global
\* range is itself, a map is looked up by the holiday key on a national
\* holiday (when the map has it), else by weekday, else [1, 1]
ConfiguredRange(d) ==
  LET c == cfg.shifts_per_day
      wd == weekdays_jp[((cfg.first_weekday + d) % WeekLen) + 1]
  IN IF c.kind = "int" THEN <<c.min, c.min>>
     ELSE IF c.kind = "range" THEN <<c.min, c.max>>
     ELSE IF d \in cfg.jp_holidays /\ HolidayKey \in DOMAIN c.map THEN c.map[HolidayKey]
     ELSE IF wd \in DOMAIN c.map THEN c.map[wd]
     ELSE <<1, 1>>

\* C1: in every solution solve returns, unrelaxed or relaxed, the headcount of
\* a day that is not a no-shift date lies within the [min, max] configured for
\* it, and the headcount of a no-shift date is 0.
CoverageWithinRange ==
  \A sol \in ReturnedSolutions : \A d \in Days :
    IF d \in cfg.no_shift_dates
    THEN Headcount(sol, d) = 0
    ELSE /\ ConfiguredRange(d)[1] <= Headcount(sol, d)
         /\ Headcount(sol, d) <= ConfiguredRange(d)[2]

\* a relaxed solution under a per-weekday map with a no-shift date, one day
\* staffed above its minimum
CoverageWitness ==
  \E sol \in ReturnedSolutions :
    /\ sol.relaxed
    /\ cfg.shifts_per_day.kind = "map"
    /\ cfg.no_shift_dates # {}
    /\ \E d \in Days \ cfg.no_shift_dates :
         /\ ConfiguredRange(d)[1] < ConfiguredRange(d)[2]
         /\ Headcount(sol, d) = ConfiguredRange(d)[2]

\* C2: in every returned solution a staff with a manual vacation on a date is
\* off that date even when the date is also manually fixed or rule-fixed for
\* them, a staff with a manual fixed shift and no manual vacation on a date
\* works it even when a rule vacation or an unavailable weekday covers it, and
\* no slot is ever pinned to two different values.
SlotPrecedence ==
  /\ \A sol \in ReturnedSolutions : \A s \in StaffIdx(cfg) : \A d \in Days :
       /\ <<cfg.all_staff[s], d>> \in cfg.vacations => ~Worked(sol, s, d)
       /\ (<<cfg.all_staff[s], d>> \in cfg.manual_fixed_shifts
           /\ <<cfg.all_staff[s], d>> \notin cfg.vacations) => Worked(sol, s, d)
  /\ \A s \in StaffIdx(cfg) : \A d \in Days : Cardinality(SlotRule(cfg, s, d)) <= 1

\* a returned solution with both overlaps: a slot on vacation that is also
\* manually fixed and rule-fixed (left off), and a manually fixed slot under a
\* rule vacation and an unavailable weekday (worked)
SlotPrecedenceWitness ==
  \E sol \in ReturnedSolutions : \E s \in StaffIdx(cfg) : \E d1, d2 \in Days :
    LET name == cfg.all_staff[s]
    IN /\ <<name, d1>> \in cfg.vacations
       /\ <<name, d1>> \in cfg.manual_fixed_shifts
       /\ <<name, d1>> \in _generate_fixed_shifts_from_rules(cfg)
       /\ ~Worked(sol, s, d1)
       /\ <<name, d2>> \in cfg.manual_fixed_shifts
       /\ <<name, d2>> \notin cfg.vacations
       /\ <<name, d2>> \in _generate_vacations_from_rules(cfg)
       /\ weekdays_jp[((cfg.first_weekday + d2) % WeekLen) + 1] \in cfg.impossible_weekdays[name]
       /\ Worked(sol, s, d2)

\* C3: in every solution of an attempt with hard rest interval R, for every
\* staff and every day d of the period, the last days included: working d and
\* being off d+1 means being off every d+1+i (1 <= i <= R-1) inside the
\* period, unless d and d+1+i are both planned fixed for the staff.
RestIntervalEverywhere ==
  \A sol \in ReturnedSolutions : \A s \in StaffIdx(cfg) : \A d \in Days :
    \A i \in 1..(sol.min_interval - 1) :
      (/\ d + 1 + i < NumDays
       /\ ~(IsPlanned(cfg, s, d) /\ IsPlanned(cfg, s, d + 1 + i))
       /\ Worked(sol, s, d)
       /\ ~Worked(sol, s, d + 1))
        => ~Worked(sol, s, d + 1 + i)

\* the windows of max_consecutive_days + 1 consecutive days of the period
WindowDays(d) == d..(d + cfg.max_consecutive_days)
PinnedPairIn(s, d) ==
  \E j \in d..(d + cfg.max_consecutive_days - 1) : IsPlanned(cfg, s, j) /\ IsPlanned(cfg, s, j + 1)
WorkedIn(sol, s, d) == Cardinality({j \in WindowDays(d) : Worked(sol, s, j)})
AllWindows == {d \in Days : d + cfg.max_consecutive_days < NumDays}

\* C4: in every returned solution, every staff works at most
\* max_consecutive_days days of every window of max_consecutive_days + 1
\* consecutive days of the period, except in windows holding two adjacent
\* days both planned fixed for that staff.
MaxConsecutiveWindows ==
  \A sol \in ReturnedSolutions : \A s \in StaffIdx(cfg) : \A d \in AllWindows :
    ~PinnedPairIn(s, d) => WorkedIn(sol, s, d) <= cfg.max_consecutive_days

\* a returned solution with an exempt window worked on all its days and the
\* last window of the period, not exempt, worked to the limit
MaxConsecutiveWitness ==
  \E sol \in ReturnedSolutions : \E s1, s2 \in StaffIdx(cfg) : \E d1 \in AllWindows :
    /\ PinnedPairIn(s1, d1)
    /\ WorkedIn(sol, s1, d1) = cfg.max_consecutive_days + 1
    /\ NumDays - 1 - cfg.max_consecutive_days \in AllWindows
    /\ ~PinnedPairIn(s2, NumDays - 1 - cfg.max_consecutive_days)
    /\ WorkedIn(sol, s2, NumDays - 1 - cfg.max_consecutive_days) = cfg.max_consecutive_days

\* a staff's assigned-day count shifted by their manual total offset
AdjustedTotal(sol, s) ==
  Cardinality({d \in Days : Worked(sol, s, d)}) - cfg.total_adjustments[cfg.all_staff[s]]

AdjustedTotalSpread(sol) ==
  LET T == {AdjustedTotal(sol, s) : s \in StaffIdx(cfg)}
  IN MaxOf(T) - MinOf(T)

\* C5: with fairness_as_hard and at least two active staff, every solution of
\* the unrelaxed solve has max - min of the adjusted totals within
\* fairness_tolerance.
HardTotalFairness ==
  \A sol \in ReturnedSolutions :
    (cfg.fairness_as_hard /\ NumStaff(cfg) >= 2 /\ ~sol.relaxed)
      => AdjustedTotalSpread(sol) <= cfg.fairness_tolerance

\* the grids that meet every constraint of the first attempt other than the
\* pinning of the category-fairness penalty
AdmissibleButForCategoryPenalty ==
  {g \in GridsFrom(cfg, 0) :
     /\ ModelBaseOK(cfg, UnrelaxedParams(cfg, <<>>), g)
     /\ FairnessVarsOK(cfg, UnrelaxedParams(cfg, <<>>), g)}

\* C6: with fairness_as_hard off and a fairness group, a grid whose category
\* spread exceeds the tolerance stays admissible, so the unrelaxed attempt is
\* INFEASIBLE only when no grid meets the other constraints.
SoftCategoryFairnessAdmits ==
  (/\ ~cfg.fairness_as_hard
   /\ cfg.fairness_group # {}
   /\ Len(attempts) >= 1
   /\ attempts[1].status = "INFEASIBLE")
    => AdmissibleButForCategoryPenalty = {}

\* C7: a returned list holds at most max_solutions solutions, and any two of
\* them differ in at least one (staff, day) cell of the raw grid.
EnumerationDistinct ==
  result.kind = "list" =>
    /\ Len(result.solutions) <= cfg.max_solutions
    /\ \A i, j \in 1..Len(result.solutions) :
         i # j => \E d \in Days : \E s \in StaffIdx(cfg) :
                    Worked(result.solutions[i], s, d) # Worked(result.solutions[j], s, d)

\* a full list of at least two solutions
EnumerationWitness ==
  /\ result.kind = "list"
  /\ Len(result.solutions) >= 2
  /\ Len(result.solutions) = cfg.max_solutions

\* C8: relaxation is entered only when the very first attempt is infeasible:
\* once a solution is accepted no relaxation stage runs, and solve returns
\* the list of all accepted solutions.
RelaxationOnlyOnFirstAttempt ==
  found_solutions # <<>> =>
    /\ pc \in {"solve", "returned"}
    /\ \A i \in 1..Len(attempts) : attempts[i].stage = "solve"
    /\ pc = "returned" => result = ListResult(found_solutions)

\* C9: an UNKNOWN status of any attempt, in solve or in a relaxation stage,
\* ends the run like "no further solution": no later attempt follows it and
\* the run returns no failure report.
UnknownIsNoFurtherSolution ==
  \A i \in 1..Len(attempts) :
    attempts[i].status = "UNKNOWN" =>
      /\ i = Len(attempts)
      /\ pc = "returned"
      /\ result.kind = "list"

\* the entries of an audit trail that record a relaxation of the interval
IntervalEntries(log) == {i \in 1..Len(log) : log[i].kind = "interval"}

\* C10: the audit trail of a relaxed solution lists exactly the relaxations
\* it needed: a Stage-1 solution at effective interval e carries the single
\* entry R -> e, a Stage-2 or 2b solution carries no entry of a failed
\* Stage-1 attempt, and a Stage-2b solution none of the withdrawn range
\* (stated for the runs in which the solver decided every attempt).
AuditTrailExact ==
  (\A i \in 1..Len(attempts) : attempts[i].status # "UNKNOWN") =>
    \A sol \in ReturnedSolutions :
      /\ sol.stage = "stage1" =>
           sol.relaxations = <<LogEntry("interval", orig_min(cfg), sol.min_interval)>>
      /\ sol.stage \in {"stage2", "stage2b"} => IntervalEntries(sol.relaxations) = {}
      /\ sol.stage = "stage2b" =>
           \A i \in 1..Len(sol.relaxations) : sol.relaxations[i].kind # "others_range"

\* C11: solve never propagates an exception: whatever fails while the model
\* is built or solved, solve ends with a list of solutions or with a string.
SolveNeverPropagates == result.kind \in {"none", "list", "str"}

\* the run's rules name a staff that is not in the registry
UnknownStaffInRules ==
  \/ \E r \in cfg.rules_fixed_data : r.staff \notin {cfg.all_staff[i] : i \in DOMAIN cfg.all_staff}
  \/ \E r \in cfg.rule_based_vacations :
       r.staff_name \notin {cfg.all_staff[i] : i \in DOMAIN cfg.all_staff}

\* C12: a run whose recurring rules name a staff missing from the registry is
\* rejected: solve never returns a solution for it.
UnknownStaffRuleRejected == UnknownStaffInRules => ReturnedSolutions = {}

\* the manual fixed days of a staff, counted from the inputs
PinnedDays(n) == Cardinality({d \in Days : <<n, d>> \in cfg.manual_fixed_shifts})

\* the sum of the configured daily minima
RequiredSlots == SumOver(Days, [d \in Days |-> ConfiguredRange(d)[1]])

\* the band of the others: the slots left by the pinned days of the tough
\* staff (never below 0), shared among the others, rounded down and up
OthersBand(tough, others) ==
  LET pinned == SumOver(tough, [n \in tough |-> PinnedDays(n)])
      remaining == IF RequiredSlots > pinned THEN RequiredSlots - pinned ELSE 0
      M == Cardinality(others)
      lo == CHOOSE q \in 0..remaining : q * M <= remaining /\ remaining < (q + 1) * M
      hi == CHOOSE q \in 0..remaining : (q - 1) * M < remaining /\ remaining <= q * M
  IN <<lo, hi>>

\* the first attempt was INFEASIBLE, relaxation ran to its end without a solution
AllStagesFailed ==
  /\ pc = "returned"
  /\ Len(attempts) >= 2
  /\ attempts[1].status = "INFEASIBLE"
  /\ \A i \in 2..Len(attempts) : attempts[i].status \notin {"OPTIMAL", "FEASIBLE"}

\* C13: when the first attempt is INFEASIBLE and every relaxation stage fails,
\* solve returns a string of two non-empty parts: the message of the Stage-2
\* attempt (the generic fallback hint or the conflict report when that attempt
\* was INFEASIBLE, the unknown-state message when it was undecided), then the
\* stage-2 diagnostic listing each tough staff with its count of fixed days,
\* the total of required slots and the band computed for the others.
FailureReportComplete ==
  AllStagesFailed =>
    /\ result.kind = "str"
    /\ Len(result.text) = 2
    /\ result.text[1] # ""
    /\ (\E i \in 2..Len(attempts) :
          attempts[i].stage = "stage2" /\ attempts[i].status = "INFEASIBLE")
         => result.text[1] \in {"fallback_hint", "conflict_report"}
    /\ LET diag == result.text[2]
           tough == DOMAIN diag.tough
       IN /\ tough = tough_names(cfg)
          /\ \A n \in tough : diag.tough[n] = PinnedDays(n)
          /\ diag.R_total = RequiredSlots
          /\ diag.others = {cfg.all_staff[i] : i \in DOMAIN cfg.all_staff} \ tough
          /\ diag.others # {} => diag.others_bounds = OthersBand(tough, diag.others)

\* all three stages failed by infeasibility and the report carries the hint
FailureReportWitness ==
  /\ AllStagesFailed
  /\ \A i \in 1..Len(attempts) : attempts[i].status = "INFEASIBLE"
  /\ attempts[Len(attempts)].stage = "stage2b"
  /\ result.kind = "str"
  /\ result.text[1] = "fallback_hint"
  /\ DOMAIN result.text[2].tough # {}

\* the solution Stage 1 returned, if any
Stage1Solutions == {sol \in ReturnedSolutions : sol.stage = "stage1"}

\* the rest rule for interval e on every day of the period
RestRuleFor(sol, e) ==
  \A s \in StaffIdx(cfg) : \A d \in Days : \A i \in 1..(e - 1) :
    (/\ d + 1 + i < NumDays
     /\ ~(IsPlanned(cfg, s, d) /\ IsPlanned(cfg, s, d + 1 + i))
     /\ Worked(sol, s, d)
     /\ ~Worked(sol, s, d + 1))
      => ~Worked(sol, s, d + 1 + i)

\* the raw totals of the active staff differ by at most 1
RawTotalsEven(sol) ==
  \A s, t \in StaffIdx(cfg) :
    Cardinality({d \in Days : Worked(sol, s, d)})
      - Cardinality({d \in Days : Worked(sol, t, d)}) <= 1

\* the attempts of solve's own loop come first; after them the Stage-1
\* attempts ran R-1, R-2, .., e in that order, and only the last of them
\* found a solution
Stage1Descending(e) ==
  LET R == cfg.min_interval
      n0 == Cardinality({i \in 1..Len(attempts) : attempts[i].stage = "solve"})
  IN /\ Len(attempts) = n0 + (R - e)
     /\ \A i \in 1..n0 : attempts[i].stage = "solve"
     /\ \A j \in 1..(R - e) :
          /\ attempts[n0 + j].stage = "stage1"
          /\ attempts[n0 + j].min_interval = R - j
          /\ j < R - e => attempts[n0 + j].status \notin {"OPTIMAL", "FEASIBLE"}

Stage1OrderAndTotals ==
  \A sol \in Stage1Solutions :
    RawTotalsEven(sol) /\ Stage1Descending(sol.min_interval)

\* C14: a solution returned from Stage 1 with effective interval e satisfies
\* the rest rule for e, has raw totals differing by at most 1, and was reached
\* after every larger effective interval R-1, .., e+1 was tried, in that
\* order, without a solution.
Stage1FirstFeasible ==
  \A sol \in Stage1Solutions :
    /\ RestRuleFor(sol, sol.min_interval)
    /\ RawTotalsEven(sol)
    /\ Stage1Descending(sol.min_interval)

\* the attempts made by _progressive_relaxation, in order
ControllerAttempts == SelectSeq(attempts, LAMBDA a : a.stage # "solve")

\* the number of Stage-1 attempts a full Stage 1 makes for interval R
Stage1Length == IF cfg.min_interval >= 1 THEN cfg.min_interval - 1 ELSE 0

Failed(a) == a.status \notin {"OPTIMAL", "FEASIBLE"}

\* Stage 1 descending from R-1, Stage 2 after a full failed Stage 1, Stage 2b
\* right after a failed Stage 2, each of the two at most once
ControllerOrder ==
  LET ca == ControllerAttempts
  IN \A i \in 1..Len(ca) :
       /\ ca[i].stage = "stage1" =>
            /\ i <= Stage1Length
            /\ ca[i].min_interval = cfg.min_interval - i
            /\ \A j \in 1..(i - 1) : ca[j].stage = "stage1" /\ Failed(ca[j])
       /\ ca[i].stage = "stage2" =>
            /\ i = Stage1Length + 1
            /\ \A j \in 1..(i - 1) : ca[j].stage = "stage1" /\ Failed(ca[j])
       /\ ca[i].stage = "stage2b" =>
            /\ i = Stage1Length + 2
            /\ ca[i - 1].stage = "stage2" /\ Failed(ca[i - 1])

\* the controller was entered: an attempt of solve's loop was INFEASIBLE
ControllerEntered == \E i \in 1..Len(attempts) :
  attempts[i].stage = "solve" /\ attempts[i].status = "INFEASIBLE"

ControllerResult ==
  (pc = "returned" /\ ControllerEntered) =>
    \/ result.kind = "list" /\ Len(result.solutions) = 1
    \/ result.kind = "str" /\ result.text # <<>>

\* C15 (as amended): the relaxation attempts run Stage 1 (R-1 down to 1),
\* Stage 2, Stage 2b in that order, Stage 2 only after every Stage-1 attempt
\* failed, Stage 2b only after Stage 2 failed, each at most once; the run
\* always ends, with a one-solution list or a diagnostic string, after at
\* most max(R-1, 0) + 2 relaxation attempts.
RelaxationOrderAndTermination ==
  /\ [](ControllerOrder /\ ControllerResult
          /\ Len(ControllerAttempts) <= Stage1Length + 2)
  /\ <>(pc \in {"returned", "raised"})

\* a run through every stage: two Stage-1 attempts, Stage 2, Stage 2b, failure
RelaxationOrderWitness ==
  /\ pc = "returned"
  /\ Len(ControllerAttempts) = 4
  /\ ControllerAttempts[1].stage = "stage1" /\ ControllerAttempts[2].stage = "stage1"
  /\ ControllerAttempts[3].stage = "stage2" /\ ControllerAttempts[4].stage = "stage2b"
  /\ result.kind = "str"

\* C15 (as stated): the controller ends after at most (R-1) + 2 attempts.
RelaxationWithinRMinusOnePlusTwo ==
  Len(ControllerAttempts) <= (cfg.min_interval - 1) + 2

\* the solution the Stage-2 banded attempt returned, if any
Stage2Solutions == {sol \in ReturnedSolutions : sol.stage = "stage2"}

DaysWorked(sol, n) ==
  Cardinality({d \in Days : \E s \in StaffIdx(cfg) : NameOf(cfg, s) = n /\ Worked(sol, s, d)})

\* floor and ceiling of a / b for a >= 0, b > 0
FloorOf(a, b) == CHOOSE q \in 0..a : q * b <= a /\ a < (q + 1) * b
CeilOf(a, b) == CHOOSE q \in 0..a : (q - 1) * b < a /\ a <= q * b

\* every staff of 'others' has its total within the band of 'required' slots
WithinBand(sol, required) ==
  LET tough == tough_names(cfg)
      others == {cfg.all_staff[i] : i \in DOMAIN cfg.all_staff} \ tough
      pinned == SumOver(tough, [n \in tough |-> PinnedDays(n)])
      remaining == IF required > pinned THEN required - pinned ELSE 0
      M == Cardinality(others)
  IN \A n \in others :
       /\ DaysWorked(sol, n) >= FloorOf(remaining, M)
       /\ DaysWorked(sol, n) <= CeilOf(remaining, M)

\* the slots the period requires: the daily minimum, none on a no-shift date
RequiredDutySlots ==
  SumOver(Days, [d \in Days |->
     IF d \in cfg.no_shift_dates THEN 0 ELSE ConfiguredRange(d)[1]])

\* the band as the controller computes it, from the configured minima of all
\* days; it is the band of the required slots when no day is without shift
Stage2BandOfConfiguredMinima ==
  \A sol \in Stage2Solutions : sol.min_interval = 1 /\ WithinBand(sol, RequiredSlots)

\* C16: in a solution of the Stage-2 banded attempt every staff of 'others'
\* has a total within [floor(remaining/M), ceil(remaining/M)], remaining being
\* the total of required duty slots less the manually fixed slots of the tough
\* staff, never below 0, and M the number of others; the attempt's rest
\* interval is 1.
Stage2OthersWithinBand ==
  \A sol \in Stage2Solutions : sol.min_interval = 1 /\ WithinBand(sol, RequiredDutySlots)

\* C17: when the unrelaxed first attempt is INFEASIBLE, _analyze_infeasibility
\* is invoked on that attempt, before the first relaxation attempt starts.
DiagnoserRunsOnFirstAttempt ==
  (Len(attempts) >= 1 /\ attempts[1].status = "INFEASIBLE") => attempts[1].analyzed

\* the days of the month and their weekdays
MonthDays == 0..(cfg.last_day - 1)
WeekdayOf(d) == (cfg.first_weekday + d) % WeekLen
ExemptHoliday(d) == cfg.ignore_rules_on_holidays /\ d \in cfg.jp_holidays

\* the walk over the days 0..d with one occurrence counter per weekday
RECURSIVE CountersAfter(_)
CountersAfter(d) ==
  IF d < 0 THEN [w \in Range(WeekLen) |-> 0]
  ELSE LET before == CountersAfter(d - 1)
       IN IF ExemptHoliday(d) THEN before
          ELSE [before EXCEPT ![WeekdayOf(d)] = @ + 1]

OccurrencesOf(w) == {d \in MonthDays : WeekdayOf(d) = w}
LastDateOf(w) == CHOOSE d \in OccurrencesOf(w) : \A e \in OccurrencesOf(w) : e <= d

\* a rule (week n, weekday w) matches the date d
Matches(n, w, d) ==
  /\ WeekdayOf(d) = w
  /\ ~ExemptHoliday(d)
  /\ \/ n = CountersAfter(d)[w]
     \/ n = LastWeek /\ d = LastDateOf(w)

\* the dates one rule yields in the expansion of the model
DatesOfFixedRule(r) == {d \in MonthDays : <<r.staff, d>> \in result.fixed}

\* C18 (as amended): walking the days of the month with one counter per
\* weekday, a rule (n, w) yields a date of weekday w exactly when n is the
\* counter value at that date or n = 5 and the date is the last date of w in
\* the month; a rule with n = 5 yields the last occurrence of w and nothing
\* else, whether w occurs four or five times, and yields nothing when that
\* date is an exempt holiday; with the exemption on, holidays are never
\* yielded and do not advance the counter.
RuleExpansionMatches ==
  result.kind = "rules" =>
    /\ result.fixed =
         {p \in NameSet \X MonthDays : \E r \in cfg.rule_based_fixed_shifts :
            r.staff = p[1] /\ Matches(r.week_number, r.weekday_index, p[2])}
    /\ result.vacations =
         {p \in NameSet \X MonthDays : \E r \in cfg.rule_based_vacations :
            r.staff_name = p[1] /\ Matches(r.week_number, r.weekday_index, p[2])}
    /\ \A r \in cfg.rule_based_fixed_shifts :
         /\ r.week_number = LastWeek =>
              DatesOfFixedRule(r) =
                IF ExemptHoliday(LastDateOf(r.weekday_index)) THEN {}
                ELSE {LastDateOf(r.weekday_index)}
         /\ \A d \in DatesOfFixedRule(r) : ~ExemptHoliday(d)

\* a weekday of five occurrences, one of them an exempt holiday: the rule of
\* week 4 yields the fifth occurrence
RuleExpansionWitness ==
  /\ result.kind = "rules"
  /\ \E r \in cfg.rule_based_fixed_shifts :
       /\ r.week_number = LastWeek - 1
       /\ Cardinality(OccurrencesOf(r.weekday_index)) = LastWeek
       /\ DatesOfFixedRule(r) = {LastDateOf(r.weekday_index)}

\* C18 (as stated): a rule of week 5 yields exactly one date.
LastWeekRuleYieldsOneDate ==
  result.kind = "rules" =>
    \A r \in cfg.rule_based_fixed_shifts :
      r.week_number = LastWeek => Cardinality(DatesOfFixedRule(r)) = 1

\* the (active staff, date) slots the fixed-shift rules yield
RuleFixedSlots ==
  {q \in StaffIdx(cfg) \X Days : <<NameOf(cfg, q[1]), q[2]>> \in rule_fixed_lookup(cfg)}

Unhonoured(sol) == {q \in RuleFixedSlots : ~Worked(sol, q[1], q[2])}

\* a manual fixed shift is worked, unless a manual vacation takes the slot
ManualFixedHard(sol) ==
  \A s \in StaffIdx(cfg) : \A d \in Days :
    (<<NameOf(cfg, s), d>> \in cfg.manual_fixed_shifts
       /\ <<NameOf(cfg, s), d>> \notin cfg.vacations) => Worked(sol, s, d)

\* no slot is yielded by two rules
NoRuleOverlap ==
  \A r1, r2 \in cfg.rule_based_fixed_shifts : \A d \in Days :
    (r1 # r2 /\ r1.staff = r2.staff /\ RuleMatches(cfg, r1, d)) => ~RuleMatches(cfg, r2, d)

\* what holds of the claim: the count is exact when no two rules meet
RuleFixedSoftWithoutOverlap ==
  \A sol \in ReturnedSolutions :
    /\ ManualFixedHard(sol)
    /\ NoRuleOverlap => fixed_penalty(cfg, sol.raw_shifts) = Cardinality(Unhonoured(sol))

\* a rule-fixed slot on a vacation day is left unhonoured by a solution
UnhonouredSlotReturned ==
  \E sol \in ReturnedSolutions : \E q \in Unhonoured(sol) :
    <<NameOf(cfg, q[1]), q[2]>> \in cfg.vacations

\* C19: only rule-derived fixed shifts are soft: in every solution penalty
\* term A is the number of rule-fixed slots (active staff, date) on which the
\* staff is not assigned, while a manual fixed shift is always worked.
RuleFixedSoftAndCounted ==
  \A sol \in ReturnedSolutions :
    /\ ManualFixedHard(sol)
    /\ fixed_penalty(cfg, sol.raw_shifts) = Cardinality(Unhonoured(sol))

\* the number of first days of the period the carry-over closes for staff s
\* in an attempt of rest interval R: R - (first day - L).days + 1
ForbiddenDays(s, R) == R - (0 - cfg.last_month_end_dates[NameOf(cfg, s)]) + 1

\* the carry-over, with the days in 'open' left out
CarryOverExcept(open) ==
  \A sol \in ReturnedSolutions : \A s \in StaffIdx(cfg) :
    NameOf(cfg, s) \in DOMAIN cfg.last_month_end_dates =>
      \A d \in Days :
        (d < ForbiddenDays(s, sol.min_interval) /\ <<NameOf(cfg, s), d>> \notin open)
          => ~Worked(sol, s, d)

\* what holds of the claim: the days left out are those of a manual fixed
\* shift and those a fixed-shift rule yields
CarryOverExceptPlanned ==
  CarryOverExcept(cfg.manual_fixed_shifts \cup rule_fixed_lookup(cfg))

\* C20: with a last worked date L supplied for a staff, no solution of an
\* attempt of rest interval R assigns the staff on any of the first
\* R - (first day - L).days + 1 days of the period, except on a day a manual
\* fixed shift pins the staff; no day is closed when the number is <= 0.
RestCarryOver == CarryOverExcept(cfg.manual_fixed_shifts)

\* the trailing consecutive-day count supplied for a staff (0 when none is)
TrailingCount(s) ==
  IF NameOf(cfg, s) \in DOMAIN cfg.prev_month_consecutive_days
  THEN cfg.prev_month_consecutive_days[NameOf(cfg, s)] ELSE 0
\* the first K - c + 1 days of the period
BoundaryWindow(s) == 0..(cfg.max_consecutive_days - TrailingCount(s))
BoundaryPinnedPair(s) ==
  \E j \in BoundaryWindow(s) :
    j + 1 \in BoundaryWindow(s) /\ IsPlanned(cfg, s, j) /\ IsPlanned(cfg, s, j + 1)
WorkedAtBoundary(sol, s) ==
  Cardinality({j \in BoundaryWindow(s) \cap Days : Worked(sol, s, j)})

\* C21: a staff whose trailing consecutive-day count c of the prior period
\* is supplied with 0 < c <= max_consecutive_days = K works, in every
\* returned solution, at most K - c of the first K - c + 1 days of the
\* period, unless two adjacent days of that window are both planned fixed
\* for the staff.
ConsecutiveCarryOver ==
  \A sol \in ReturnedSolutions : \A s \in StaffIdx(cfg) :
    (/\ 0 < TrailingCount(s)
     /\ TrailingCount(s) <= cfg.max_consecutive_days
     /\ ~BoundaryPinnedPair(s))
      => WorkedAtBoundary(sol, s) <= cfg.max_consecutive_days - TrailingCount(s)

\* a returned solution whose staff, with a count below the limit and no
\* pinned pair at the boundary, works the boundary window to the cap
ConsecutiveCarryOverWitness ==
  \E sol \in ReturnedSolutions : \E s \in StaffIdx(cfg) :
    /\ 0 < TrailingCount(s)
    /\ TrailingCount(s) < cfg.max_consecutive_days
    /\ ~BoundaryPinnedPair(s)
    /\ WorkedAtBoundary(sol, s) = cfg.max_consecutive_days - TrailingCount(s)

\* the pairs of days at a distance below the original interval, for a staff
ClosePairs == {q \in Days \X (1..(cfg.min_interval - 1)) : q[1] + q[2] < NumDays}
WeightOf(r) == IF r = 1 THEN 100 ELSE IF r = 2 THEN 60 ELSE 40
TooClose(sol, s, q) == IF Worked(sol, s, q[1]) /\ Worked(sol, s, q[1] + q[2]) THEN 1 ELSE 0
\* the weighted sum of the too-close literals of the pairs not exempt
ProximityTerm(sol, exempt) ==
  LET lits == {p \in StaffIdx(cfg) \X ClosePairs :
                 ~(<<NameOf(cfg, p[1]), p[2][1]>> \in exempt
                   /\ <<NameOf(cfg, p[1]), p[2][1] + p[2][2]>> \in exempt)}
  IN SumOver(lits, [p \in lits |-> WeightOf(p[2][2]) * TooClose(sol, p[1], p[2])])
ProximityTermIs(exempt) ==
  \A sol \in ReturnedSolutions :
    /\ (sol.relaxed /\ cfg.min_interval > 1) =>
          sol.minint_penalty = ProximityTerm(sol, exempt)
    /\ ~sol.relaxed => sol.minint_penalty = 0
\* term B with the pairs of manual fixed days alone exempt
ProximityTermExceptManual == ProximityTermIs(cfg.manual_fixed_shifts)
\* a relaxed solution with a positive term B
ProximityTermPositive ==
  \E sol \in ReturnedSolutions : sol.relaxed /\ sol.minint_penalty > 0

\* C22: in a relaxation attempt with original interval R > 1, term B is the
\* sum, over every staff and every pair of days at a distance r with
\* 1 <= r < R that are not both planned fixed (manual or rule-based) for the
\* staff, of the weight of r (100, 60, 40, non-increasing) when the staff
\* works both days; the unrelaxed attempt has no term B.
ProximityPenaltyB == ProximityTermIs(planned_fixed_lookup(cfg))

\* the categories of the group active on a date (a weekday label, the
\* holiday marker on a national holiday)
ActiveCategories(d) ==
  {c \in cfg.fairness_group :
     \/ c = weekdays_jp[((cfg.first_weekday + d) % WeekLen) + 1]
     \/ (c = HolidayKey /\ d \in cfg.jp_holidays)}
\* the history entries no more than 90 days before the first day on which
\* the staff worked a day of the category
HistoryHits(s, c) ==
  {pd \in DOMAIN cfg.past_schedules :
     /\ 0 - pd <= 90
     /\ NameOf(cfg, s) \in cfg.past_schedules[pd]
     /\ c \in ActiveCategories(pd)}
RECURSIVE Score(_, _, _, _)
Score(sol, s, c, d) ==
  IF d = 0 THEN 30 * Cardinality(HistoryHits(s, c))
  ELSE LET hit == IF Worked(sol, s, d - 1) /\ c \in ActiveCategories(d - 1) THEN 1 ELSE 0
           next == Score(sol, s, c, d - 1) - 1 + 60 * hit
       IN IF next > 0 THEN next ELSE 0
TermC(sol) ==
  LET terms == {q \in (StaffIdx(cfg) \X Days) \X cfg.fairness_group :
                  q[2] \in ActiveCategories(q[1][2]) /\ Worked(sol, q[1][1], q[1][2])}
  IN SumOver(terms, [q \in terms |-> Score(sol, q[1][1], q[2], q[1][2])])
DispersionActive == cfg.disperse_duties /\ cfg.fairness_group # {}
\* in every returned solution of a run with the option on, term C is the sum
\* of the current scores of the assigned days
TermCIsSumOfScores ==
  \A sol \in ReturnedSolutions :
    DispersionActive =>
      /\ sol.dispersion_penalty = TermC(sol)
      /\ \A s \in StaffIdx(cfg), c \in cfg.fairness_group, d \in Days : Score(sol, s, c, d) >= 0
\* a returned solution with a positive term C whose scores start from history
TermCPositive ==
  \E sol \in ReturnedSolutions :
    /\ DispersionActive /\ sol.dispersion_penalty > 0
    /\ \E s \in StaffIdx(cfg), c \in cfg.fairness_group : HistoryHits(s, c) # {}
\* no day of the period has a category of the group: term C is the empty sum
NoCategoryDay == \A d \in Days : ActiveCategories(d) = {}
\* the first model with the option switched off has a solution
FeasibleWithoutTermC ==
  FeasibleGrids([cfg EXCEPT !.disperse_duties = FALSE],
                UnrelaxedParams([cfg EXCEPT !.disperse_duties = FALSE], <<>>)) # {}
\* with an empty sum the attempt is the attempt without term C: it does not
\* raise, and it is not INFEASIBLE when that model has a solution
EmptyTermCIsZero ==
  (DispersionActive /\ NoCategoryDay /\ NumStaff(cfg) > 0 /\ cfg.max_solutions > 0) =>
    /\ result.kind # "exception"
    /\ (Len(attempts) > 0 /\ FeasibleWithoutTermC) => attempts[1].status # "INFEASIBLE"

\* C23: the score of a staff and category starts at 30 times the number of
\* history entries, no more than 90 days before the first day, on which the
\* staff worked a day of the category; the next day's score is
\* max(0, score - 1 + 60 * [assigned and category active]), never negative;
\* term C is the sum over days, staff and active categories of the current
\* score when the staff is assigned (0 for an empty sum).
DispersionScoreEvolution == TermCIsSumOfScores /\ EmptyTermCIsZero

\* the tags that only the model of one stage records
TagStage(t) ==
  IF t = "total_diff_first" THEN {"solve"}
  ELSE IF t = "total_diff_stage1" THEN {"stage1"}
  ELSE IF t \in {"others_lower", "others_upper"} THEN {"stage2"}
  ELSE IF t = "others_diff" THEN {"stage2b"}
  ELSE {"solve", "stage1", "stage2", "stage2b"}
\* the models built so far
ModelsBuilt == Len(attempts) + (IF pc = "raised" THEN 1 ELSE 0)

\* C24: the tag log _analyze_infeasibility reads was built with the model of
\* the solver it is given: every attempt starts with an empty log, so after
\* each attempt the log holds tags of that attempt's model alone, none
\* recorded for an earlier attempt or for the model of another stage.
TagLogOfCurrentAttempt ==
  /\ \A q \in constraint_tags : q[1] = ModelsBuilt
  /\ Len(attempts) > 0 =>
       /\ pc # "raised" => constraint_tags # {}
       /\ \A q \in constraint_tags :
            q[1] = Len(attempts) => attempts[Len(attempts)].stage \in TagStage(q[2])

\* a relaxation attempt that called _analyze_infeasibility after attempts of
\* two other stages, its log holding a tag particular to its stage
TagLogWitness ==
  /\ Len(attempts) >= 3
  /\ attempts[Len(attempts)].analyzed
  /\ attempts[Len(attempts)].stage = "stage2b"
  /\ attempts[1].stage = "solve" /\ attempts[Len(attempts) - 1].stage = "stage2"
  /\ <<Len(attempts), "others_diff">> \in constraint_tags

\* the solutions found by the loop of solve
UnrelaxedSolutions ==
  {found_solutions[i] : i \in 1..Len(found_solutions)}
  \cup {sol \in ReturnedSolutions : ~sol.relaxed}
RawTotalOf(sol, s) == Cardinality({d \in Days : Worked(sol, s, d)})
RawSpread(sol) ==
  LET T == {RawTotalOf(sol, s) : s \in StaffIdx(cfg)}
  IN (CHOOSE x \in T : \A y \in T : y <= x) - (CHOOSE x \in T : \A y \in T : x <= y)
\* the days a manual fixed shift forces on a staff (a manual vacation on the
\* same day wins), and the days a staff can work at most
ForcedDays(s) ==
  {d \in Days : <<NameOf(cfg, s), d>> \in cfg.manual_fixed_shifts
                 /\ <<NameOf(cfg, s), d>> \notin cfg.vacations}
OpenDays(s) == {d \in Days : <<NameOf(cfg, s), d>> \notin cfg.vacations}
SpreadOutOfReach ==
  \E s, t \in StaffIdx(cfg) : Cardinality(ForcedDays(s)) > Cardinality(OpenDays(t)) + 1

\* C25: with manual fixed shifts supplied, the raw totals of the staff in
\* every solution of the unrelaxed attempt differ by at most 1, whatever
\* fairness_as_hard and fairness_tolerance are; when a staff is fixed on so
\* many days that no grid has this spread, the unrelaxed attempt finds no
\* solution.
FirstAttemptTotalsEven ==
  cfg.manual_fixed_shifts # {} =>
    /\ \A sol \in UnrelaxedSolutions : RawSpread(sol) <= 1
    /\ SpreadOutOfReach =>
         \A i \in 1..Len(attempts) :
           attempts[i].stage = "solve" => attempts[i].status \in {"INFEASIBLE", "UNKNOWN"}

\* an unrelaxed solution with manual fixed shifts under soft fairness, its
\* raw totals one apart
FirstAttemptTotalsEvenWitness ==
  /\ cfg.manual_fixed_shifts # {}
  /\ ~cfg.fairness_as_hard /\ cfg.fairness_group # {}
  /\ \E sol \in UnrelaxedSolutions : RawSpread(sol) = 1
\* a first attempt INFEASIBLE with the spread out of reach
SpreadOutOfReachInfeasible ==
  /\ cfg.manual_fixed_shifts # {} /\ SpreadOutOfReach /\ Len(attempts) > 0
  /\ attempts[1].stage = "solve" /\ attempts[1].status = "INFEASIBLE"

\* the first attempt was INFEASIBLE and a relaxation stage found a solution
RelaxationSucceeded ==
  /\ pc = "returned" /\ Len(attempts) > 1
  /\ attempts[1].stage = "solve" /\ attempts[1].status = "INFEASIBLE"
  /\ attempts[Len(attempts)].stage # "solve"
  /\ attempts[Len(attempts)].status \in {"OPTIMAL", "FEASIBLE"}

\* C26: when the first attempt is INFEASIBLE and a relaxation stage
\* succeeds, solve returns a list of exactly one solution whatever
\* max_solutions is, and that solution carries a non-empty relaxations
\* trail; a solution of an unrelaxed attempt carries none.
RelaxedResultSingleWithTrail ==
  /\ RelaxationSucceeded =>
       /\ result.kind = "list"
       /\ Len(result.solutions) = 1
       /\ Len(result.solutions[1].relaxations) > 0
  /\ \A sol \in UnrelaxedSolutions : Len(sol.relaxations) = 0

\* a relaxed solution returned alone although more were requested
RelaxedResultWitness ==
  /\ RelaxationSucceeded
  /\ cfg.max_solutions > 1
  /\ Len(result.solutions) = 1 /\ Len(result.solutions[1].relaxations) > 0

\* C27: the total of required duty slots Stage 2 works with (the R_total of
\* its even-split baseline, tough-staff estimate and band, as the failure
\* report prints it) is the number of slots the coverage constraint
\* requires: the configured minimum of each ordinary day, 0 for a no-shift
\* date.
Stage2TotalIsRequiredSlots ==
  (result.kind = "str" /\ Len(result.text) = 2) =>
     result.text[2].R_total = RequiredDutySlots

\* the inputs with the total offsets taken away: with an empty fairness
\* group the offsets enter the first model through the objective alone
WithoutTotalOffsets == [cfg EXCEPT !.total_adjustments = [n \in NameSet |-> 0]]
FeasibleWithoutOffsets ==
  FeasibleGrids(WithoutTotalOffsets, UnrelaxedParams(WithoutTotalOffsets, <<>>)) # {}

\* C28: manual offsets, positive or negative, only change the objective or
\* the fairness comparison: the bounded auxiliary variables of the fairness
\* objective admit every grid that meets the other hard constraints, so a
\* first model that has a solution without the total offsets is not
\* INFEASIBLE with them.
OffsetsNeverInfeasible ==
  (/\ cfg.fairness_group = {}
   /\ Len(attempts) > 0
   /\ FeasibleWithoutOffsets)
    => attempts[1].status # "INFEASIBLE"

\* the inputs with the trailing counts above max_consecutive_days left out
WithoutCountsAboveLimit ==
  [cfg EXCEPT !.prev_month_consecutive_days =
     [n \in {m \in DOMAIN cfg.prev_month_consecutive_days :
               cfg.prev_month_consecutive_days[m] <= cfg.max_consecutive_days}
        |-> cfg.prev_month_consecutive_days[n]]]
CountAboveLimit ==
  \E s \in StaffIdx(cfg) : TrailingCount(s) > cfg.max_consecutive_days

\* C29: a trailing consecutive-day count above max_consecutive_days posts
\* no carry-over constraint: a first model that has a solution without
\* that count is not INFEASIBLE with it.
CountAboveLimitSkipped ==
  (/\ CountAboveLimit
   /\ Len(attempts) > 0
   /\ FeasibleGrids(WithoutCountsAboveLimit,
                    UnrelaxedParams(WithoutCountsAboveLimit, <<>>)) # {})
    => attempts[1].status # "INFEASIBLE"

\* C30: the relaxation controller leaves the caller's inputs as they were:
\* no step of solve changes the contents of total_adjustments,
\* fairness_adjustments, the manual fixed shifts or the manual vacations,
\* also when Stage 2 lowered the expectations of the tough staff.
CallerInputsUnchanged ==
  [][/\ cfg'.total_adjustments = cfg.total_adjustments
     /\ cfg'.fairness_adjustments = cfg.fairness_adjustments
     /\ cfg'.manual_fixed_shifts = cfg.manual_fixed_shifts
     /\ cfg'.vacations = cfg.vacations]_vars

\* solve has returned after a Stage 2 that lowered the total and the
\* category expectation of a tough staff
CallerInputsWitness ==
  /\ pc = "returned"
  /\ \E i \in 1..Len(attempts) : attempts[i].stage = "stage2"
  /\ \E i \in 1..Len(relaxations_log) : relaxations_log[i].kind = "tough_total"
  /\ \E i \in 1..Len(relaxations_log) : relaxations_log[i].kind = "tough_fair"
====
